---------------------------- MODULE Spec2Model ----------------------------
(***************************************************************************)
(* A model of the trace subsystem of cbmc-viewer (cbmc_viewer/tracet.py    *)
(* and the helpers it calls in util.py, parse.py, filet.py and srcloct.py),*)
(* of the merge of coverage data (coveraget.py) and of the merge of        *)
(* property checking results (resultt.py).                                 *)
(*                                                                         *)
(* Python values are modelled as follows.  A str is a sequence of          *)
(* one-character strings, so that str.startswith can be computed; None is  *)
(* a value different from every str; a dict with str keys is a function    *)
(* whose domain is a set of TLA+ strings; a list is a sequence.            *)
(***************************************************************************)
EXTENDS Integers, Sequences, FiniteSets, TLC

VARIABLES
    input,      \* the step list a parser produced (grown one step at a time)
    trace,      \* the list object handed to the passes (mutated in place)
    status,     \* how the last call on trace ended: "none", "ok" or the exception
    pc,         \* position of the single-trace run: "input", "closed", "closed2"
    first,      \* the list as the first pass over it left it
    files,      \* the input files of one make-trace invocation
    built,      \* the outcome of building a Trace object from files
    saved,      \* the JSON document written by Trace.dump (or NoDoc)
    reloaded,   \* the outcome of TraceFromJson on the saved document
    loc,        \* one call of srcloct.make_srcloc: its arguments and its result
    rawsteps,   \* the steps of one trace as CBMC wrote them (xml or json)
    parsedsteps, \* the outcome of parsing rawsteps
    blocks,     \* the blocks of one CBMC text output file
    texttraces, \* the outcome of parse_text_traces on blocks
    make,       \* one call of do_make_trace: its arguments and its result
    proc,       \* one Python process: its module-level objects and its builds
    bits,       \* one call of binary_as_bytes: its argument and its result
    covered,    \* the coverage sets of one make-coverage run and their merge
    outputs     \* the CBMC output files of one run and what is parsed from them

locVars == <<loc>>
stepVars == <<rawsteps, parsedsteps>>
textVars == <<blocks, texttraces>>
makeVars == <<make>>
procVars == <<proc>>
bitsVars == <<bits>>
covVars == <<covered>>
outVars == <<outputs>>
traceVars == <<input, trace, status, pc, first>>
buildVars == <<files, built, saved, reloaded>>

vars == <<input, trace, status, pc, first, files, built, saved, reloaded,
          loc, rawsteps, parsedsteps, blocks, texttraces, make,
          proc, bits, covered, outputs>>

-----------------------------------------------------------------------------
(* Bounds of the model *)

MaxLen == 3         \* longest input trace of the single-trace specification
MaxFiles == 3       \* most input files of one invocation

-----------------------------------------------------------------------------
(* Python values *)

None == <<"None">>

startswith(s, c) == Len(s) > 0 /\ s[1] = c

\* dict.get(key) with the default None
Get(d, key) == IF key \in DOMAIN d THEN d[key] ELSE None

-----------------------------------------------------------------------------
(* srcloct.py: source locations *)

MISSING == <<"M", "I", "S", "S", "I", "N", "G">>

SrcLoc(file, function, line) ==
    [file |-> file, function |-> function, line |-> line]

MISSING_SRCLOC == SrcLoc(MISSING, MISSING, 0)

-----------------------------------------------------------------------------
(* tracet.py: steps.  The key 'name-path' is written name_path. *)

CallDetail(name, name_path, location) ==
    [name |-> name, name_path |-> name_path, location |-> location]

Step(kind, location, hidden, detail) ==
    [kind |-> kind, location |-> location, hidden |-> hidden, detail |-> detail]

-----------------------------------------------------------------------------
(* tracet.py: close_function_stack_frames *)

push_stack(stack, elt) == Append(stack, elt)

\* variant: the popped frame stays on the stack
pop_stack_keep(stack) ==
    IF stack = <<>>
    THEN [raised |-> TRUE, pair |-> <<>>, stack |-> stack]
    ELSE [raised |-> FALSE, pair |-> stack[Len(stack)], stack |-> stack]

\* assert stack; return stack[-1], stack[:-1]
pop_stack(stack) ==
    IF stack = <<>>
    THEN [raised |-> TRUE, pair |-> <<>>, stack |-> stack]
    ELSE [raised |-> FALSE, pair |-> stack[Len(stack)],
          stack |-> SubSeq(stack, 1, Len(stack) - 1)]

\* variant: the names are not compared
NameMismatchNever(callee_name, callee_name_) == FALSE

\* callee_name != callee_name_
NameMismatch(callee_name, callee_name_) == callee_name # callee_name_

\* variant: hidden steps are passed over
KindUnlessHidden(step) == IF step.hidden THEN "hidden" ELSE step.kind

\* kind = step['kind']
KindOf(step) == step.kind

\* the loop over the steps of the trace, from step i on
RECURSIVE WalkSteps(_, _, _, _)
WalkSteps(steps, i, stack, location) ==
    IF i > Len(steps)
    THEN [status |-> "ok", stack |-> stack, location |-> location]
    ELSE LET step == steps[i]
             kind == KindOf(step)
             callee_name == Get(step.detail, "name")
             callee_name_path == Get(step.detail, "name_path")
             callee_location == Get(step.detail, "location")
         IN  IF kind = "function-call"
             THEN WalkSteps(steps, i + 1,
                      push_stack(stack,
                          <<callee_name, callee_name_path, callee_location>>),
                      step.location)
             ELSE IF kind = "function-return"
             THEN LET popped == pop_stack(stack)
                  IN  IF popped.raised
                      THEN [status |-> "AssertionError", stack |-> stack,
                            location |-> step.location]
                      ELSE IF NameMismatch(callee_name, popped.pair[1])
                      THEN [status |-> "UserWarning", stack |-> popped.stack,
                            location |-> step.location]
                      ELSE WalkSteps(steps, i + 1, popped.stack, step.location)
             ELSE WalkSteps(steps, i + 1, stack, step.location)

\* list.reverse()
Reverse(s) == [k \in 1..Len(s) |-> s[Len(s) + 1 - k]]

\* variant: the synthetic step is not hidden
function_return_visible(frame, location) ==
    Step("function-return", location, FALSE,
         CallDetail(frame[1], frame[2], frame[3]))

\* the synthetic step appended for one frame left on the stack
function_return(frame, location) ==
    Step("function-return", location, TRUE,
         CallDetail(frame[1], frame[2], frame[3]))

\* variant: the stack is not reversed
ClosingOrderOutermostFirst(stack) == stack

\* the frames in the order in which their returns are appended
ClosingOrder(stack) == Reverse(stack)

\* the whole function on a list of steps: [status, trace]; the returns are
\* appended to the list itself, and nothing is appended when the walk raises
close_function_stack_frames(steps) ==
    LET w == WalkSteps(steps, 1, <<>>, None)
        stack == ClosingOrder(w.stack)
    IN  [status |-> w.status,
         trace |-> IF w.status = "ok"
                   THEN steps \o [k \in 1..Len(stack) |->
                                     function_return(stack[k], w.location)]
                   ELSE steps]

-----------------------------------------------------------------------------
(* The inputs of the single-trace specification *)

File_c == <<"a", ".", "c">>
File_h == <<"/", "h">>
Fn_main == <<"m">>
Name_f == <<"f">>
Name_g == <<"g">>

Loc1 == SrcLoc(File_c, Fn_main, 1)
Loc2 == SrcLoc(File_c, Fn_main, 2)
LocExt == SrcLoc(File_h, None, 3)

Names == {Name_f, Name_g}

\* the json parser gives no name-path, the xml parser gives the identifier
NamePathOf(name) == IF name = Name_f THEN None ELSE name

Call(name, location, hidden, callee) ==
    Step("function-call", location, hidden,
         CallDetail(name, NamePathOf(name), callee))

Return(name, location, hidden, callee) ==
    Step("function-return", location, hidden,
         CallDetail(name, NamePathOf(name), callee))

Assignment(location) ==
    Step("variable-assignment", location, FALSE,
         [lhs |-> <<"x">>, lhs_lexical_scope |-> None,
          rhs_value |-> <<"1">>, rhs_binary |-> None])

Failure(location) ==
    Step("failure", location, FALSE,
         [property |-> None, reason |-> <<"r">>])

StepUniverse ==
    {Call(n, l[1], h, l[2]) :
        n \in Names, h \in BOOLEAN, l \in {<<Loc1, LocExt>>, <<LocExt, Loc1>>}}
    \cup {Return(n, l[1], FALSE, l[2]) :
        n \in Names, l \in {<<Loc2, Loc1>>, <<LocExt, LocExt>>}}
    \cup {Assignment(l) : l \in {Loc2, LocExt}}
    \cup {Failure(l) : l \in {Loc2, LocExt}}

-----------------------------------------------------------------------------
(* The single-trace specification: a parser produces a step list, and      *)
(* close_function_stack_frames is applied to it, once or twice.            *)

NoDoc == [py |-> "none"]

Init ==
    /\ input = <<>>
    /\ trace = <<>>
    /\ status = "none"
    /\ pc = "input"
    /\ first = <<>>
    /\ files = <<>>
    /\ built = [status |-> "none"]
    /\ saved = NoDoc
    /\ reloaded = [status |-> "none"]
    /\ loc = [at |-> "idle"]
    /\ rawsteps = <<>>
    /\ parsedsteps = [status |-> "none", fmt |-> "none"]
    /\ blocks = <<>>
    /\ texttraces = [status |-> "none"]
    /\ make = [at |-> "args", viewer_trace |-> <<>>, cbmc_trace |-> <<>>]
    /\ proc = [heap |-> [MISSING_SRCLOC |-> MISSING_SRCLOC],
               raw |-> <<>>, builds |-> <<>>]
    /\ bits = [at |-> "input", n |-> 0, binary |-> <<>>]
    /\ covered = [at |-> "list", coverage_list |-> <<>>]
    /\ outputs = [at |-> "written", files |-> <<>>, traces |-> <<>>,
                  module_ |-> [prover |-> None, true |-> <<>>, false |-> <<>>],
                  parsed |-> <<>>, result |-> None]

\* a parser appends one step to the list it builds
AppendStep ==
    /\ pc = "input"
    /\ Len(input) < MaxLen
    /\ \E s \in StepUniverse :
        /\ input' = Append(input, s)
        /\ trace' = Append(input, s)
    /\ UNCHANGED <<status, pc, first, files, built, saved, reloaded,
                 locVars, stepVars, textVars, makeVars,
                 procVars, bitsVars, covVars, outVars>>

\* close_function_stack_frames(trace) on the parser's list
Reconcile ==
    /\ pc = "input"
    /\ LET r == close_function_stack_frames(trace)
       IN  /\ trace' = r.trace
           /\ first' = r.trace
           /\ status' = r.status
    /\ pc' = "closed"
    /\ UNCHANGED <<input, files, built, saved, reloaded,
                 locVars, stepVars, textVars, makeVars,
                 procVars, bitsVars, covVars, outVars>>

\* close_function_stack_frames(trace) on the list a first call returned
ReconcileAgain ==
    /\ pc = "closed"
    /\ status = "ok"
    /\ LET r == close_function_stack_frames(trace)
       IN  /\ trace' = r.trace
           /\ status' = r.status
    /\ pc' = "closed2"
    /\ UNCHANGED <<input, first, files, built, saved, reloaded,
                 locVars, stepVars, textVars, makeVars,
                 procVars, bitsVars, covVars, outVars>>

-----------------------------------------------------------------------------
(* Well-nestedness, stated with a counter over the call and return steps *)

IsCall(t, i) == t[i].kind = "function-call"
IsReturn(t, i) == t[i].kind = "function-return"

NCalls(t, k) == Cardinality({i \in 1..k : IsCall(t, i)})
NReturns(t, k) == Cardinality({i \in 1..k : IsReturn(t, i)})

\* the counter after the first k steps
Depth(t, k) == NCalls(t, k) - NReturns(t, k)

Max(S) == CHOOSE x \in S : \A y \in S : y <= x

\* the calls still unmatched just before step j, innermost last
OpenBefore(t, j) ==
    {i \in 1..(j - 1) :
        IsCall(t, i) /\ \A m \in i..(j - 1) : Depth(t, m) >= Depth(t, i)}

WellNested(t) ==
    /\ \A k \in 0..Len(t) : Depth(t, k) >= 0
    /\ Depth(t, Len(t)) = 0
    /\ \A j \in 1..Len(t) :
          IsReturn(t, j) =>
              /\ OpenBefore(t, j) # {}
              /\ t[Max(OpenBefore(t, j))].detail.name = t[j].detail.name

\* some return names another callee than the innermost call open at it
HasMismatch(t) ==
    \E j \in 1..Len(t) :
        /\ IsReturn(t, j)
        /\ OpenBefore(t, j) # {}
        /\ t[Max(OpenBefore(t, j))].detail.name # t[j].detail.name

\* the indices of a set, largest first
RECURSIVE Descending(_)
Descending(S) ==
    IF S = {} THEN <<>> ELSE <<Max(S)>> \o Descending(S \ {Max(S)})

-----------------------------------------------------------------------------
(* Claims about close_function_stack_frames *)

\* C1: whenever close_function_stack_frames returns, the call and return
\* steps of its result are well nested: the counter never goes negative,
\* ends at zero, and every return names the innermost unmatched call.
C1_BracketBalance ==
    (pc \in {"closed", "closed2"} /\ status = "ok") => WellNested(trace)

C1_Witness ==
    /\ pc = "closed" /\ status = "ok"
    /\ Len(trace) > Len(input)
    /\ \E j \in 1..Len(input) : IsReturn(input, j)

\* C2: a trace in which a return names another callee than the innermost
\* open call makes close_function_stack_frames raise; no trace is returned
\* and nothing is appended to the list.
C2_MismatchFatal ==
    (pc = "closed" /\ HasMismatch(input)) =>
        /\ status \in {"UserWarning", "AssertionError"}
        /\ trace = input

C2_Witness ==
    /\ pc = "closed" /\ status = "UserWarning"
    /\ Len(input) = 3
    /\ IsCall(input, 1) /\ IsCall(input, 2) /\ IsReturn(input, 3)
    /\ input[3].detail.name = input[1].detail.name
    /\ input[3].detail.name # input[2].detail.name

\* C3: the result is the input, unchanged, followed by one function-return
\* per call still open at the end of the input, innermost first, each with
\* the name, name-path and callee location of its call; their number is
\* #calls - #returns, and a trace with no open call is returned unchanged.
C3_Shape ==
    (pc = "closed" /\ status = "ok") =>
        LET open == Descending(OpenBefore(input, Len(input) + 1))
            n == Len(input)
        IN  /\ SubSeq(trace, 1, n) = input
            /\ Len(trace) - n = NCalls(input, n) - NReturns(input, n)
            /\ Len(trace) - n = Len(open)
            /\ \A k \in 1..Len(open) :
                  /\ trace[n + k].kind = "function-return"
                  /\ trace[n + k].detail = input[open[k]].detail

C3_Witness ==
    /\ pc = "closed" /\ status = "ok"
    /\ Len(trace) = Len(input) + 2
    /\ trace[Len(input) + 1].detail.name # trace[Len(input) + 2].detail.name

\* C4: every appended function-return is hidden and is located at the last
\* step of the input, whatever the hidden flag of its call; the input
\* [call f at loc1, assignment at loc2, failure at loc2] gives four steps,
\* the fourth being the hidden return of f at loc2.
C4_Example ==
    <<Call(Name_f, Loc1, FALSE, LocExt), Assignment(Loc2), Failure(Loc2)>>

C5_Idempotent ==
    pc = "closed2" => (status = "ok" /\ trace = first)

C5_Witness ==
    /\ pc = "closed2"
    /\ Len(first) > Len(input)
    /\ \E j \in 1..Len(input) : IsReturn(input, j)

-----------------------------------------------------------------------------
(* tracet.py: strip_external_srclocs *)

\* location['file'].startswith('/')
\* variant: every location counts as external
IsExternalAlways(location) == TRUE

IsExternal(location) == startswith(location.file, "/")

\* the body of the loop, on one step: the two locations are tested in turn
\* variant: only the top-level location is tested
strip_step_top_only(step) ==
    IF IsExternal(step.location)
    THEN [step EXCEPT !.location = MISSING_SRCLOC]
    ELSE step

strip_step(step) ==
    LET s1 == IF IsExternal(step.location)
              THEN [step EXCEPT !.location = MISSING_SRCLOC]
              ELSE step
    IN  IF "location" \in DOMAIN s1.detail /\ IsExternal(s1.detail.location)
        THEN [s1 EXCEPT !.detail.location = MISSING_SRCLOC]
        ELSE s1

strip_external_srclocs(steps) == [k \in 1..Len(steps) |-> strip_step(steps[k])]

\* strip_external_srclocs(trace) on the parser's list
Strip ==
    /\ pc = "input"
    /\ trace' = strip_external_srclocs(trace)
    /\ first' = strip_external_srclocs(trace)
    /\ status' = "ok"
    /\ pc' = "stripped"
    /\ UNCHANGED <<input, files, built, saved, reloaded,
                 locVars, stepVars, textVars, makeVars,
                 procVars, bitsVars, covVars, outVars>>

\* strip_external_srclocs(trace) on the list a first call returned
StripAgain ==
    /\ pc = "stripped"
    /\ trace' = strip_external_srclocs(trace)
    /\ pc' = "stripped2"
    /\ UNCHANGED <<input, status, first, files, built, saved, reloaded,
                 locVars, stepVars, textVars, makeVars,
                 procVars, bitsVars, covVars, outVars>>

Next == AppendStep \/ Reconcile \/ ReconcileAgain \/ Strip \/ StripAgain

Spec == Init /\ [][Next]_vars

\* the locations of a step list: the top-level ones and the detail ones
Locations(steps) ==
    {steps[k].location : k \in 1..Len(steps)}
    \cup {steps[k].detail.location :
              k \in {j \in 1..Len(steps) : "location" \in DOMAIN steps[j].detail}}

\* C12: strip_external_srclocs is idempotent (a second application changes
\* nothing), and a location whose file does not start with '/' is never
\* altered, at top level or in a detail.
C12_StripIdempotent ==
    /\ pc = "stripped2" => trace = first
    /\ pc \in {"stripped", "stripped2"} =>
          \A k \in 1..Len(input) :
              /\ input[k].location.file[1] # "/"
                    => trace[k].location = input[k].location
              /\ ("location" \in DOMAIN input[k].detail
                     /\ input[k].detail.location.file[1] # "/")
                    => trace[k].detail.location = input[k].detail.location

C12_Witness ==
    /\ pc = "stripped2"
    /\ first # input
    /\ \E k \in 1..Len(input) :
          /\ trace[k].location = Loc1
          /\ "location" \in DOMAIN trace[k].detail
          /\ trace[k].detail.location = MISSING_SRCLOC

\* C19: strip_external_srclocs changes a trace only by putting the sentinel
\* in place of each top-level location and each detail location whose file
\* starts with '/', the two positions being tested independently; the
\* number, order, kind and hidden flag of the steps and every other detail
\* field are unchanged, and afterwards no location has a file that starts
\* with '/'.
C19_StripOnlyExternal ==
    pc = "stripped" =>
        /\ Len(trace) = Len(input)
        /\ \A k \in 1..Len(input) :
              LET before == input[k]
                  after == trace[k]
              IN  /\ after.kind = before.kind
                  /\ after.hidden = before.hidden
                  /\ after.location =
                        IF before.location.file[1] = "/"
                        THEN MISSING_SRCLOC ELSE before.location
                  /\ DOMAIN after.detail = DOMAIN before.detail
                  /\ \A key \in DOMAIN before.detail \ {"location"} :
                        after.detail[key] = before.detail[key]
                  /\ "location" \in DOMAIN before.detail =>
                        after.detail.location =
                            IF before.detail.location.file[1] = "/"
                            THEN MISSING_SRCLOC ELSE before.detail.location
        /\ \A l \in Locations(trace) : l.file[1] # "/"

C19_Witness ==
    /\ pc = "stripped"
    /\ Len(input) = 2
    /\ input[1].location = LocExt
    /\ "location" \in DOMAIN input[1].detail
    /\ input[1].detail.location = Loc1
    /\ trace[1].location = MISSING_SRCLOC
    /\ trace[1].detail.location = Loc1
    /\ input[2].kind = "failure"
    /\ trace[2] = input[2]

-----------------------------------------------------------------------------
(* Values of a dict of traces.  The value under a key is a list of steps   *)
(* when a parser built the dict; load_traces can put a dict there, so the  *)
(* values carry their Python type.                                         *)

PyList(items) == [py |-> "list", items |-> items]
PyDict(items) == [py |-> "dict", items |-> items]

EmptyDict == [k \in {} |-> k]

Put(d, key, val) ==
    [k \in DOMAIN d \cup {key} |-> IF k = key THEN val ELSE d[k]]

\* the property names of the model and the key "traces" of a saved document,
\* in the order in which a dict holding them is iterated
KeyOrder == <<"p", "q", "traces">>

Keys(d) == SelectSeq(KeyOrder, LAMBDA k : k \in DOMAIN d)

-----------------------------------------------------------------------------
(* util.py: merge_dicts, as Trace.merge calls it (with handle_duplicate,   *)
(* which logs one warning naming the key)                                  *)

\* variant: a differing later value replaces the kept one
merge_item_overwrite(acc, key, val) ==
    IF key \in DOMAIN acc.result /\ val # acc.result[key]
    THEN [result |-> Put(acc.result, key, val),
          warnings |-> Append(acc.warnings, key)]
    ELSE [result |-> Put(acc.result, key, val), warnings |-> acc.warnings]

\* the body of the inner loop: acc is [result, warnings]
merge_item(acc, key, val) ==
    IF key \in DOMAIN acc.result /\ val # acc.result[key]
    THEN [result |-> acc.result, warnings |-> Append(acc.warnings, key)]
    ELSE [result |-> Put(acc.result, key, val), warnings |-> acc.warnings]

RECURSIVE merge_items(_, _, _)
merge_items(acc, dict_, keys) ==
    IF keys = <<>> THEN acc
    ELSE merge_items(merge_item(acc, Head(keys), dict_[Head(keys)]),
                     dict_, Tail(keys))

RECURSIVE merge_loop(_, _, _)
merge_loop(acc, dicts, i) ==
    IF i > Len(dicts) THEN acc
    ELSE merge_loop(merge_items(acc, dicts[i], Keys(dicts[i])), dicts, i + 1)

\* variant: the loop starts at the second dict
merge_dicts_skip_first(dicts) ==
    IF dicts = <<>> THEN [result |-> EmptyDict, warnings |-> <<>>]
    ELSE IF Len(dicts) = 1 THEN [result |-> dicts[1], warnings |-> <<>>]
    ELSE merge_loop([result |-> EmptyDict, warnings |-> <<>>], dicts, 2)

\* if not dicts: {}; if len(dicts) == 1: dicts[0]; else the two loops
merge_dicts(dicts) ==
    IF dicts = <<>> THEN [result |-> EmptyDict, warnings |-> <<>>]
    ELSE IF Len(dicts) = 1 THEN [result |-> dicts[1], warnings |-> <<>>]
    ELSE merge_loop([result |-> EmptyDict, warnings |-> <<>>], dicts, 1)

-----------------------------------------------------------------------------
(* tracet.py: Trace.merge, Trace.validate, Trace.__init__ *)

\* close_function_stack_frames on the value under one key.  Iterating a
\* dict yields its keys, and step['kind'] on a str raises TypeError; an
\* empty dict is returned as it is.
close_entry(v) ==
    IF v.py = "list"
    THEN LET r == close_function_stack_frames(v.items)
         IN  [status |-> r.status, value |-> PyList(r.trace)]
    ELSE IF DOMAIN v.items = {}
    THEN [status |-> "ok", value |-> v]
    ELSE [status |-> "TypeError", value |-> v]

\* variant: the filtering pass is left out
strip_entry_skip(v) == v

\* strip_external_srclocs on the value under one key (a dict that gets
\* here is empty, and the loop over it does nothing)
strip_entry(v) ==
    IF v.py = "list" THEN PyList(strip_external_srclocs(v.items)) ELSE v

\* [status, stage, lists, merged, warnings, traces]: merged is what
\* merge_dicts returned, warnings the keys handle_duplicate logged
Trace_merge(trace_lists) ==
    LET m == merge_dicts(trace_lists)
        names == DOMAIN m.result
        closed == [n \in names |-> close_entry(m.result[n])]
        failing == SelectSeq(Keys(m.result), LAMBDA n : closed[n].status # "ok")
    IN  IF failing # <<>>
        THEN [status |-> closed[Head(failing)].status, stage |-> "merge",
              lists |-> trace_lists, merged |-> m.result,
              warnings |-> m.warnings, traces |-> EmptyDict]
        ELSE [status |-> "ok", stage |-> "done",
              lists |-> trace_lists, merged |-> m.result,
              warnings |-> m.warnings,
              traces |-> [n \in names |-> strip_entry(closed[n].value)]]

StepKinds ==
    {"function-call", "function-return", "variable-assignment",
     "parameter-assignment", "failure", "assumption"}

\* VALID_TRACES: every value is a list of valid steps
validate(traces) ==
    \A n \in DOMAIN traces :
        /\ traces[n].py = "list"
        /\ \A k \in 1..Len(traces[n].items) :
              /\ traces[n].items[k].kind \in StepKinds
              /\ traces[n].items[k].hidden \in BOOLEAN

Trace_init(trace_lists) ==
    LET m == Trace_merge(trace_lists)
    IN  IF m.status = "ok" /\ ~validate(m.traces)
        THEN [m EXCEPT !.status = "Invalid", !.stage = "validate",
                       !.traces = EmptyDict]
        ELSE m

-----------------------------------------------------------------------------
(* json: the document str(Trace) writes and what json.load reads back.     *)
(* A dict is written as an object and a list as an array; a step and its   *)
(* str, int, bool and None fields are written as JSON values that json.load*)
(* reads back as the same Python values.                                   *)

JsonObject(members) == [json |-> "object", members |-> members]
JsonArray(elements) == [json |-> "array", elements |-> elements]

\* Trace.__str__: json.dumps({JSON_TAG: self.__dict__})
Trace_str(traces) ==
    JsonObject("viewer-trace" :>
        JsonObject("traces" :>
            JsonObject([n \in DOMAIN traces |-> JsonArray(traces[n].items)])))

\* json.load, down to the lists of steps
RECURSIVE json_load(_)
json_load(doc) ==
    IF doc.json = "object"
    THEN PyDict([k \in DOMAIN doc.members |-> json_load(doc.members[k])])
    ELSE PyList(doc.elements)

-----------------------------------------------------------------------------
(* Input files.  A file is [cond, traces]: cond says whether it can be     *)
(* opened and parsed, traces is the mapping from property names to step    *)
(* lists that its parser yields.                                           *)

InputFile(cond, traces) == [cond |-> cond, traces |-> traces]

Raise(exception) == [status |-> exception, traces |-> EmptyDict]
Return_(traces) == [status |-> "ok", traces |-> traces]

AsLists(traces) == [n \in DOMAIN traces |-> PyList(traces[n])]

\* variant: the parsers raise by default
DefaultFailTrue == TRUE

\* parse.py: the default of the parameter fail
DefaultFail == FALSE

\* parse.py: [status, none, data]
parse_xml_string(xfile, fail) ==
    IF xfile.cond = "unparsable"
    THEN IF fail THEN [status |-> "UserWarning", none |-> TRUE, data |-> EmptyDict]
         ELSE [status |-> "ok", none |-> TRUE, data |-> EmptyDict]
    ELSE [status |-> "ok", none |-> FALSE, data |-> xfile.traces]

parse_xml_file(xfile, fail) ==
    IF xfile.cond = "unopenable"
    THEN IF fail THEN [status |-> "UserWarning", none |-> TRUE, data |-> EmptyDict]
         ELSE [status |-> "ok", none |-> TRUE, data |-> EmptyDict]
    ELSE parse_xml_string(xfile, fail)

parse_json_string(jfile, fail) ==
    IF jfile.cond = "unparsable"
    THEN IF fail THEN [status |-> "UserWarning", none |-> TRUE, data |-> EmptyDict]
         ELSE [status |-> "ok", none |-> TRUE, data |-> EmptyDict]
    ELSE [status |-> "ok", none |-> FALSE, data |-> jfile.traces]

parse_json_file(jfile, fail) ==
    IF jfile.cond = "unopenable"
    THEN IF fail THEN [status |-> "UserWarning", none |-> TRUE, data |-> EmptyDict]
         ELSE [status |-> "ok", none |-> TRUE, data |-> EmptyDict]
    ELSE parse_json_string(jfile, fail)

\* tracet.py: the parsers of one file, [status, traces]
parse_xml_traces(xmlfile) ==
    LET xml == parse_xml_file(xmlfile, DefaultFail)
    IN  IF xml.status # "ok" THEN Raise(xml.status)
        ELSE IF xml.none THEN Return_(EmptyDict)
        ELSE Return_(AsLists(xml.data))

parse_json_traces(jsonfile) ==
    LET data == parse_json_file(jsonfile, DefaultFail)
    IN  IF data.status # "ok" THEN Raise(data.status)
        ELSE IF data.none THEN Return_(EmptyDict)
        ELSE Return_(AsLists(data.data))

\* open() raises OSError; a block that is none of the known ones, inside a
\* trace, raises UserWarning
parse_text_traces(textfile) ==
    IF textfile.cond = "unopenable" THEN Raise("OSError")
    ELSE IF textfile.cond = "unparsable" THEN Raise("UserWarning")
    ELSE Return_(AsLists(textfile.traces))

\* the file holds the document Trace.dump wrote for its traces
load_traces(loadfile) ==
    IF loadfile.cond = "unopenable" THEN Raise("OSError")
    ELSE IF loadfile.cond = "unparsable" THEN Raise("JSONDecodeError")
    ELSE Return_(json_load(Trace_str(AsLists(loadfile.traces)))
                    .items["viewer-trace"].items)

\* [parse(f) for f in files], then Trace.__init__
TraceFrom(fmt, parsed) ==
    LET bad == {i \in 1..Len(parsed) : parsed[i].status # "ok"}
    IN  IF bad # {}
        THEN [status |-> parsed[CHOOSE i \in bad : \A j \in bad : i <= j].status,
              stage |-> "parse", lists |-> <<>>, merged |-> EmptyDict,
              warnings |-> <<>>, traces |-> EmptyDict, fmt |-> fmt]
        ELSE [fmt |-> fmt] @@
             Trace_init([i \in 1..Len(parsed) |-> parsed[i].traces])

-----------------------------------------------------------------------------
(* The inputs of the build specification *)

TraceA == <<Call(Name_f, Loc1, FALSE, LocExt), Failure(LocExt)>>
TraceB == <<Call(Name_f, Loc1, FALSE, Loc1), Return(Name_f, Loc2, FALSE, Loc1)>>
TraceC == <<Call(Name_f, Loc1, FALSE, Loc1), Return(Name_g, Loc2, FALSE, Loc1)>>

Absent == <<>>

\* the mappings a file can define: p is absent or one of three traces, q is
\* absent or TraceB
TraceSets ==
    {[n \in {k \in {"p", "q"} : (IF k = "p" THEN tp ELSE tq) # Absent} |->
        IF n = "p" THEN tp ELSE tq] :
            tp \in {Absent, TraceA, TraceB, TraceC}, tq \in {Absent, TraceB}}

FileUniverse ==
    {InputFile("ok", t) : t \in TraceSets}
    \cup {InputFile("unopenable", EmptyDict), InputFile("unparsable", EmptyDict)}

-----------------------------------------------------------------------------
(* The build specification: one invocation is given files of one format,   *)
(* builds a Trace object from them, writes it, and loads what it wrote.     *)

AddFile ==
    /\ built.status = "none"
    /\ Len(files) < MaxFiles
    /\ \E f \in FileUniverse : files' = Append(files, f)
    /\ UNCHANGED <<input, trace, status, pc, first, built, saved, reloaded,
                 locVars, stepVars, textVars, makeVars,
                 procVars, bitsVars, covVars, outVars>>

TraceFromJson ==
    /\ built.status = "none"
    /\ built' = TraceFrom("viewer",
                  [i \in 1..Len(files) |-> load_traces(files[i])])
    /\ UNCHANGED <<input, trace, status, pc, first, files, saved, reloaded,
                 locVars, stepVars, textVars, makeVars,
                 procVars, bitsVars, covVars, outVars>>

TraceFromCbmcText ==
    /\ built.status = "none"
    /\ built' = TraceFrom("text",
                  [i \in 1..Len(files) |-> parse_text_traces(files[i])])
    /\ UNCHANGED <<input, trace, status, pc, first, files, saved, reloaded,
                 locVars, stepVars, textVars, makeVars,
                 procVars, bitsVars, covVars, outVars>>

TraceFromCbmcXml ==
    /\ built.status = "none"
    /\ built' = TraceFrom("xml",
                  [i \in 1..Len(files) |-> parse_xml_traces(files[i])])
    /\ UNCHANGED <<input, trace, status, pc, first, files, saved, reloaded,
                 locVars, stepVars, textVars, makeVars,
                 procVars, bitsVars, covVars, outVars>>

TraceFromCbmcJson ==
    /\ built.status = "none"
    /\ built' = TraceFrom("json",
                  [i \in 1..Len(files) |-> parse_json_traces(files[i])])
    /\ UNCHANGED <<input, trace, status, pc, first, files, saved, reloaded,
                 locVars, stepVars, textVars, makeVars,
                 procVars, bitsVars, covVars, outVars>>

\* Trace.dump: the file holds str(self)
Dump ==
    /\ built.status = "ok"
    /\ saved = NoDoc
    /\ saved' = Trace_str(built.traces)
    /\ UNCHANGED <<input, trace, status, pc, first, files, built, reloaded,
                 locVars, stepVars, textVars, makeVars,
                 procVars, bitsVars, covVars, outVars>>

\* TraceFromJson on the file Trace.dump wrote
Reload ==
    /\ saved # NoDoc
    /\ reloaded.status = "none"
    /\ reloaded' = TraceFrom("viewer",
                       <<Return_(json_load(saved).items["viewer-trace"].items)>>)
    /\ UNCHANGED <<input, trace, status, pc, first, files, built, saved,
                 locVars, stepVars, textVars, makeVars,
                 procVars, bitsVars, covVars, outVars>>

NextBuild ==
    \/ AddFile
    \/ TraceFromJson
    \/ TraceFromCbmcText
    \/ TraceFromCbmcXml
    \/ TraceFromCbmcJson
    \/ Dump
    \/ Reload

SpecBuild == Init /\ [][NextBuild]_vars

-----------------------------------------------------------------------------
(* Claims about building, merging, writing and loading *)

\* the build got as far as Trace.merge
Merged == built.status # "none" /\ built.stage # "parse"

AllKeys(lists) == UNION {DOMAIN lists[i] : i \in 1..Len(lists)}

\* the first of the lists that defines key
FirstWith(lists, key) ==
    CHOOSE i \in 1..Len(lists) :
        /\ key \in DOMAIN lists[i]
        /\ \A j \in 1..(i - 1) : key \notin DOMAIN lists[j]

\* C6: writing str(T) for a TraceSet T the pipeline built and loading the
\* file with TraceFromJson gives a TraceSet with the same traces, and does
\* not fail.
C6_RoundTrip ==
    reloaded.status # "none" =>
        /\ reloaded.status = "ok"
        /\ reloaded.traces = built.traces

\* C7: if some input file cannot be opened or parsed, building the
\* TraceSet fails, whatever the format of the files.
C7_UnreadableFatal ==
    built.status = "ok" => \A i \in 1..Len(files) : files[i].cond = "ok"

\* C7 (amended): with text files or saved viewer-trace files, a file that
\* cannot be opened or parsed makes the build fail while the files are
\* read; with CBMC json or xml files, such a file is read as a file that
\* defines no trace and the build goes on with the other files.
C7_UnreadableByFormat ==
    built.status # "none" =>
        /\ (built.fmt \in {"text", "viewer"}
            /\ \E i \in 1..Len(files) : files[i].cond # "ok")
                => (built.status # "ok" /\ built.stage = "parse")
        /\ built.fmt \in {"json", "xml"} =>
              /\ built.stage # "parse"
              /\ built.lists =
                    [i \in 1..Len(files) |->
                        IF files[i].cond = "ok"
                        THEN [n \in DOMAIN files[i].traces |->
                                 PyList(files[i].traces[n])]
                        ELSE EmptyDict]

C7_Witness ==
    /\ built.status = "ok"
    /\ built.fmt = "xml"
    /\ Len(files) = 2
    /\ files[1].cond = "unparsable"
    /\ files[2].cond = "ok"
    /\ DOMAIN built.traces = {"p", "q"}

\* C8: in the TraceSet Trace.merge returns, every trace is well nested and
\* no step, synthetic or not, has a location or a call/return detail
\* location whose file starts with '/'; a synthetic return appended after
\* a last step with such a location has the missing location.
C8_ReconciledThenFiltered ==
    built.status = "ok" =>
        \A n \in DOMAIN built.traces :
            /\ built.traces[n].py = "list"
            /\ LET t == built.traces[n].items
                   raw == built.merged[n].items
               IN  /\ WellNested(t)
                   /\ \A k \in 1..Len(t) :
                         /\ ~IsExternal(t[k].location)
                         /\ "location" \in DOMAIN t[k].detail
                               => ~IsExternal(t[k].detail.location)
                   /\ (raw # <<>> /\ IsExternal(raw[Len(raw)].location)) =>
                         \A k \in (Len(raw) + 1)..Len(t) :
                             t[k].location = MISSING_SRCLOC

C8_Witness ==
    /\ built.status = "ok"
    /\ \E n \in DOMAIN built.traces :
          LET t == built.traces[n].items
              raw == built.merged[n].items
          IN  /\ Len(t) > Len(raw)
              /\ IsExternal(raw[Len(raw)].location)
              /\ "location" \in DOMAIN raw[1].detail
              /\ IsExternal(raw[1].detail.location)
              /\ t[Len(t)].location = MISSING_SRCLOC
              /\ t[Len(t)].detail.location = MISSING_SRCLOC

\* C9: for every key, merge_dicts keeps the value of the first input set
\* that defines it and the duplicate handler is called once for each later
\* set whose value for the key differs from it, and not for an equal one;
\* Trace.merge fails only if reconciling a kept value fails by itself.
C9_Duplicates ==
    Merged =>
        LET lists == built.lists
        IN  /\ DOMAIN built.merged = AllKeys(lists)
            /\ \A key \in AllKeys(lists) :
                  LET i == FirstWith(lists, key)
                      differing ==
                          {j \in (i + 1)..Len(lists) :
                              /\ key \in DOMAIN lists[j]
                              /\ lists[j][key] # lists[i][key]}
                  IN  /\ built.merged[key] = lists[i][key]
                      /\ Len(SelectSeq(built.warnings, LAMBDA w : w = key))
                             = Cardinality(differing)
            /\ built.stage = "merge" =>
                  \E key \in AllKeys(lists) :
                      close_entry(lists[FirstWith(lists, key)][key]).status
                          = built.status

C9_Witness ==
    /\ built.status = "ok"
    /\ built.fmt = "json"
    /\ Len(built.lists) = 3
    /\ \A i \in 1..3 : "p" \in DOMAIN built.lists[i]
    /\ built.lists[2]["p"] = built.lists[1]["p"]
    /\ built.lists[3]["p"] # built.lists[1]["p"]
    /\ built.warnings = <<"p">>
    /\ built.merged["p"] = built.lists[1]["p"]

\* C10: when the input sets have pairwise distinct keys, Trace.merge gives
\* the same outcome for every ordering of the list: the union of the
\* entries, each reconciled and filtered.
Orderings(n) ==
    {f \in [1..n -> 1..n] : \A a, b \in 1..n : f[a] = f[b] => a = b}

Disjoint(lists) ==
    \A i, j \in 1..Len(lists) :
        i # j => DOMAIN lists[i] \cap DOMAIN lists[j] = {}

C10_Commutative ==
    (Merged /\ Disjoint(built.lists)) =>
        /\ built.status = "ok" => DOMAIN built.traces = AllKeys(built.lists)
        /\ \A f \in Orderings(Len(built.lists)) :
              LET r == Trace_init([i \in 1..Len(built.lists) |->
                                      built.lists[f[i]]])
              IN  /\ r.status = built.status
                  /\ r.traces = built.traces

C10_Witness ==
    /\ built.status = "ok"
    /\ built.fmt = "xml"
    /\ Len(built.lists) = 2
    /\ DOMAIN built.lists[1] = {"q"}
    /\ DOMAIN built.lists[2] = {"p"}
    /\ DOMAIN built.traces = {"p", "q"}
    /\ Len(built.traces["p"].items) > Len(built.lists[2]["p"].items)

-----------------------------------------------------------------------------
(* srcloct.py: path names.  os.path is posixpath, so os.sep is '/' and the *)
(* replace(os.sep, '/') of normpath changes nothing.                        *)

\* str.startswith(prefix) and str.endswith(suffix) for any prefix or suffix
str_startswith(s, prefix) ==
    Len(s) >= Len(prefix) /\ SubSeq(s, 1, Len(prefix)) = prefix

str_endswith(s, suffix) ==
    Len(s) >= Len(suffix) /\ SubSeq(s, Len(s) - Len(suffix) + 1, Len(s)) = suffix

\* bool(value) for a value that is None or a str
Truthy(value) == value # None /\ value # <<>>

\* str.split('/'): the pieces between the separators, empty pieces included
\* (split(s, 1, <<>>) is s.split('/'); piece is the piece being read at k)
RECURSIVE split(_, _, _)
split(s, k, piece) ==
    IF k > Len(s) THEN <<piece>>
    ELSE IF s[k] = "/" THEN <<piece>> \o split(s, k + 1, <<>>)
    ELSE split(s, k + 1, Append(piece, s[k]))

\* '/'.join(comps)
RECURSIVE slash_join(_)
slash_join(comps) ==
    IF Len(comps) = 0 THEN <<>>
    ELSE IF Len(comps) = 1 THEN comps[1]
    ELSE comps[1] \o <<"/">> \o slash_join(Tail(comps))

\* the loop of posixpath.normpath over the components of the path
RECURSIVE normpath_loop(_, _, _, _)
normpath_loop(comps, k, new_comps, initial_slashes) ==
    IF k > Len(comps) THEN new_comps
    ELSE LET comp == comps[k]
         IN  IF comp = <<>> \/ comp = <<".">>
             THEN normpath_loop(comps, k + 1, new_comps, initial_slashes)
             ELSE IF \/ comp # <<".", ".">>
                     \/ (initial_slashes = 0 /\ Len(new_comps) = 0)
                     \/ (Len(new_comps) > 0 /\ new_comps[Len(new_comps)] = <<".", ".">>)
             THEN normpath_loop(comps, k + 1, Append(new_comps, comp), initial_slashes)
             ELSE IF Len(new_comps) > 0
             THEN normpath_loop(comps, k + 1,
                                SubSeq(new_comps, 1, Len(new_comps) - 1),
                                initial_slashes)
             ELSE normpath_loop(comps, k + 1, new_comps, initial_slashes)

\* normpath: posixpath.normpath, and '/' for os.sep
normpath(path) ==
    IF path = <<>> THEN <<".">>
    ELSE LET initial_slashes ==
                 IF ~str_startswith(path, <<"/">>) THEN 0
                 ELSE IF str_startswith(path, <<"/", "/">>)
                         /\ ~str_startswith(path, <<"/", "/", "/">>)
                 THEN 2 ELSE 1
             joined == slash_join(normpath_loop(split(path, 1, <<>>), 1, <<>>,
                                                  initial_slashes))
             result == [k \in 1..initial_slashes |-> "/"] \o joined
         IN  IF result = <<>> THEN <<".">> ELSE result

\* posixpath.isabs, posixpath.join of two paths, posixpath.basename
isabs(path) == str_startswith(path, <<"/">>)

os_path_join(a, b) ==
    IF str_startswith(b, <<"/">>) THEN b
    ELSE IF a = <<>> \/ str_endswith(a, <<"/">>) THEN a \o b
    ELSE a \o <<"/">> \o b

basename(path) ==
    LET comps == split(path, 1, <<>>) IN comps[Len(comps)]

\* str.strip(): blanks removed at both ends
strip(s) ==
    LET inked == {k \in 1..Len(s) : s[k] # " "}
    IN  IF inked = {} THEN <<>>
        ELSE SubSeq(s, CHOOSE k \in inked : \A j \in inked : k <= j,
                       CHOOSE k \in inked : \A j \in inked : k >= j)

builtin_name(path) ==
    LET name == strip(basename(path))
    IN  IF str_startswith(name, <<"<">>) /\ str_endswith(name, <<">">>)
        THEN name ELSE None

is_builtin(path) == builtin_name(path) # None

\* variant: any string prefix counts as being under the root
relpath_any_prefix(path, root) ==
    LET p == normpath(path)
        r == normpath(root)
    IN  IF str_startswith(p, r) /\ Len(p) > Len(r)
        THEN normpath(SubSeq(p, Len(r) + 2, Len(p)))
        ELSE p

relpath(path, root) ==
    LET p == normpath(path)
        r == normpath(root)
    IN  IF str_startswith(p, r \o <<"/">>)
        THEN normpath(SubSeq(p, Len(r) + 2, Len(p)))
        ELSE p


\* results of the srcloct functions: a value, or the exception raised
Value(v) == [status |-> "ok", value |-> v]
Raised(exception) == [status |-> exception]

make_relative_path(srcfile, srcdir, wkdir) ==
    IF Truthy(srcdir) /\ ~isabs(srcdir) THEN Raised("AssertionError")
    ELSE IF Truthy(wkdir) /\ ~isabs(wkdir) THEN Raised("AssertionError")
    ELSE IF ~Truthy(srcfile) THEN Raised("AssertionError")
    ELSE IF ~(isabs(srcfile) \/ Truthy(wkdir)) THEN Raised("AssertionError")
    ELSE LET path == normpath(srcfile)
             joined == IF Truthy(wkdir)
                       THEN os_path_join(normpath(wkdir), path) ELSE path
             under == IF Truthy(srcdir)
                      THEN relpath(joined, normpath(srcdir)) ELSE joined
         IN  IF is_builtin(path)
             THEN Value(normpath(builtin_name(path)))
             ELSE Value(normpath(under))

\* the line of a CBMC source location: None, a str (json, xml, text) or
\* the int 0 that text_srcloc passes for a step without file and line
LineNone == [py |-> "None"]
LineInt(n) == [py |-> "int", int |-> n]
LineStr(s) == [py |-> "str", str |-> s]

\* bool(line)
line_truthy(line) ==
    CASE line.py = "None" -> FALSE
      [] line.py = "int" -> line.int # 0
      [] line.py = "str" -> line.str # <<>>

Digits == <<"0", "1", "2", "3", "4", "5", "6", "7", "8", "9">>

RECURSIVE int_digits(_, _)
int_digits(s, acc) ==
    IF Len(s) = 0 THEN acc
    ELSE int_digits(Tail(s),
                    10 * acc + (CHOOSE d \in 1..10 : Digits[d] = s[1]) - 1)

\* int(line) for a line that bool() accepts
int(line) ==
    IF line.py = "int" THEN Value(line.int)
    ELSE IF \A k \in 1..Len(line.str) : \E d \in 1..10 : Digits[d] = line.str[k]
    THEN Value(int_digits(line.str, 0))
    ELSE Raised("ValueError")

\* the try block of make_srcloc
try_make_srcloc(path, func, line, wkdir, root) ==
    IF ~Truthy(path) THEN Raised("AssertionError")
    ELSE IF ~line_truthy(line) THEN Raised("AssertionError")
    ELSE LET file == make_relative_path(path, root, wkdir)
         IN  IF file.status # "ok" THEN file
             ELSE LET number == int(line)
                  IN  IF number.status # "ok" THEN number
                      ELSE Value(SrcLoc(file.value, func, number.value))

\* variant: the AssertionError is not caught
make_srcloc_uncaught(path, func, line, wkdir, root) ==
    try_make_srcloc(path, func, line, wkdir, root)

make_srcloc(path, func, line, wkdir, root) ==
    LET r == try_make_srcloc(path, func, line, wkdir, root)
    IN  IF r.status = "AssertionError" THEN Value(MISSING_SRCLOC) ELSE r

-----------------------------------------------------------------------------
(* The source-location specification: a caller (text_srcloc, json_srcloc,  *)
(* xml_srcloc) hands the parts of a CBMC source location to make_srcloc.   *)

\* the parts a caller can read: paths that are missing, empty, relative,
\* under /r, sharing only the prefix /r, /r itself, and builtin names
LocationUniverse ==
    [path : {None, <<>>, <<"a">>, <<".", ".", "/", "a">>,
             <<"/", "r", "/", "a">>,
             <<"/", "r", "/", "d", "/", ".", ".", "/", ".", "/", "a">>,
             <<"/", "r", "2", "/", "a">>, <<"/", "r">>,
             <<"/", "w", "/", "<", "b", ">">>, <<"<", "b", ">">>},
     func : {None, Fn_main},
     line : {LineNone, LineInt(0), LineStr(<<"7">>), LineStr(<<"1", "2">>),
             LineStr(<<"x">>)},
     wkdir : {None, <<"/", "r", "/", "d">>, <<"/", "w">>, <<"w">>},
     root : {None, <<"/", "r">>, <<"/", "r", "/">>, <<"w">>, <<"/">>}]

\* the caller reads the parts of the location from the CBMC output
ReadLocation ==
    /\ loc.at = "idle"
    /\ \E l \in LocationUniverse :
        loc' = [at |-> "args", path |-> l.path, func |-> l.func,
                line |-> l.line, wkdir |-> l.wkdir, root |-> l.root]
    /\ UNCHANGED <<traceVars, buildVars, stepVars, textVars, makeVars,
                 procVars, bitsVars, covVars, outVars>>

\* make_srcloc(path, func, line, wkdir, root)
MakeSrcloc ==
    /\ loc.at = "args"
    /\ loc' = [at |-> "done", path |-> loc.path, func |-> loc.func,
               line |-> loc.line, wkdir |-> loc.wkdir, root |-> loc.root,
               result |-> make_srcloc(loc.path, loc.func, loc.line,
                                      loc.wkdir, loc.root)]
    /\ UNCHANGED <<traceVars, buildVars, stepVars, textVars, makeVars,
                 procVars, bitsVars, covVars, outVars>>

NextLoc == ReadLocation \/ MakeSrcloc

SpecLoc == Init /\ [][NextLoc]_vars

\* C11: make_srcloc returns the sentinel {MISSING, MISSING, 0} whenever path
\* is None or line is None, and raises nothing for any combination of None
\* arguments: the only exception it lets out is the ValueError of int() on a
\* line that is a non-numeric str, with a usable path; a relative path with
\* no working directory gives the sentinel too.
C11_SentinelPropagation ==
    loc.at = "done" =>
        /\ (loc.path = None \/ loc.line = LineNone)
              => loc.result = Value(MISSING_SRCLOC)
        /\ loc.result.status # "ok"
              => /\ loc.result.status = "ValueError"
                 /\ loc.line = LineStr(<<"x">>)
                 /\ loc.path # None
        /\ (loc.path # None /\ ~isabs(loc.path) /\ loc.wkdir = None)
              => loc.result = Value(MISSING_SRCLOC)

C11_Witness ==
    /\ loc.at = "done"
    /\ loc.path = <<"a">>
    /\ loc.line = LineStr(<<"7">>)
    /\ loc.wkdir = None
    /\ loc.root = None
    /\ loc.func = None
    /\ loc.result = Value(MISSING_SRCLOC)


\* the file that path resolution is expected to give: the path, joined onto
\* the working directory when it is relative, normalized, and with the prefix
\* root + '/' taken off when it has that prefix
ExpectedFile(path, wkdir, root) ==
    LET full == normpath(IF isabs(path) \/ wkdir = None
                         THEN path ELSE wkdir \o <<"/">> \o path)
        prefix == normpath(root) \o <<"/">>
    IN  IF root # None /\ str_startswith(full, prefix)
        THEN SubSeq(full, Len(prefix) + 1, Len(full))
        ELSE full

\* the number that each line of LineUniverse denotes
LineNumber(line) ==
    CASE line = LineStr(<<"7">>) -> 7
      [] line = LineStr(<<"1", "2">>) -> 12
      [] line = LineInt(0) -> 0

-----------------------------------------------------------------------------
(* filet.py and do_make_trace.  A file given on the command line is its    *)
(* name, of which the extension matters, and the contents found under that *)
(* name.                                                                    *)

MaxArgs == 2        \* most files of each kind given to one do_make_trace

NamedFile(ext, file) == [ext |-> ext, file |-> file]

\* filet.filetype, from the lower-case extension of the name
filetype(filename) ==
    CASE filename.ext \in {"log", "txt"} -> Value("TEXT")
      [] filename.ext \in {"jsn", "json"} -> Value("JSON")
      [] filename.ext = "xml" -> Value("XML")
      [] OTHER -> Raised("UserWarning")

\* all_text_files, all_json_files, all_xml_files: all() stops at the first
\* name that is of another type, or whose type filetype cannot tell
all_files(names, type) ==
    LET stop == {i \in 1..Len(names) : filetype(names[i]) # Value(type)}
        i == CHOOSE i \in stop : \A j \in stop : i <= j
    IN  IF stop = {} THEN Value(TRUE)
        ELSE IF filetype(names[i]).status # "ok" THEN Raised("UserWarning")
        ELSE Value(FALSE)

\* fail(msg), or filetype raising: no Trace object is made
MakeFail ==
    [status |-> "UserWarning", stage |-> "arguments", lists |-> <<>>,
     merged |-> EmptyDict, warnings |-> <<>>, traces |-> EmptyDict,
     fmt |-> "none"]

\* variant: an invocation without input files is refused
EmptyTraceRefused == MakeFail

\* Trace()
EmptyTrace == [fmt |-> "none"] @@ Trace_init(<<>>)

do_make_trace(viewer_trace, cbmc_trace, srcdir, wkdir) ==
    LET contents(names) == [i \in 1..Len(names) |-> names[i].file]
        json_viewer == all_files(viewer_trace, "JSON")
        text == all_files(cbmc_trace, "TEXT")
        json == all_files(cbmc_trace, "JSON")
        xml == all_files(cbmc_trace, "XML")
    IN  IF Len(viewer_trace) > 0
        THEN IF json_viewer = Value(TRUE)
             THEN TraceFrom("viewer", [i \in 1..Len(viewer_trace) |->
                                          load_traces(viewer_trace[i].file)])
             ELSE MakeFail
        ELSE IF Len(cbmc_trace) > 0 /\ Truthy(srcdir)
        THEN IF text.status # "ok" THEN MakeFail
             ELSE IF text.value
             THEN IF Truthy(wkdir)
                  THEN TraceFrom("text", [i \in 1..Len(cbmc_trace) |->
                                   parse_text_traces(cbmc_trace[i].file)])
                  ELSE MakeFail
             ELSE IF json.status # "ok" THEN MakeFail
             ELSE IF json.value
             THEN TraceFrom("json", [i \in 1..Len(cbmc_trace) |->
                                   parse_json_traces(cbmc_trace[i].file)])
             ELSE IF xml.status # "ok" THEN MakeFail
             ELSE IF xml.value
             THEN TraceFrom("xml", [i \in 1..Len(cbmc_trace) |->
                                   parse_xml_traces(cbmc_trace[i].file)])
             ELSE MakeFail
        ELSE EmptyTrace

\* the files that can be named: one of each type and one of no known type
NamedFiles ==
    {NamedFile(ext, InputFile("ok", "p" :> TraceB)) :
        ext \in {"txt", "json", "xml", "c"}}

-----------------------------------------------------------------------------
(* The make-trace specification: the command line names viewer-trace files *)
(* and CBMC result files, and do_make_trace is called on them.             *)

AddViewerTrace ==
    /\ make.at = "args"
    /\ Len(make.viewer_trace) < MaxArgs
    /\ \E f \in NamedFiles :
        make' = [make EXCEPT !.viewer_trace = Append(@, f)]
    /\ UNCHANGED <<traceVars, buildVars, locVars, stepVars, textVars,
                 procVars, bitsVars, covVars, outVars>>

AddCbmcTrace ==
    /\ make.at = "args"
    /\ Len(make.cbmc_trace) < MaxArgs
    /\ \E f \in NamedFiles :
        make' = [make EXCEPT !.cbmc_trace = Append(@, f)]
    /\ UNCHANGED <<traceVars, buildVars, locVars, stepVars, textVars,
                 procVars, bitsVars, covVars, outVars>>

DoMakeTrace ==
    /\ make.at = "args"
    /\ \E srcdir \in {None, <<"/", "r">>}, wkdir \in {None, <<"/", "w">>} :
        make' = [at |-> "done", viewer_trace |-> make.viewer_trace,
                 cbmc_trace |-> make.cbmc_trace,
                 srcdir |-> srcdir, wkdir |-> wkdir,
                 result |-> do_make_trace(make.viewer_trace, make.cbmc_trace,
                                          srcdir, wkdir)]
    /\ UNCHANGED <<traceVars, buildVars, locVars, stepVars, textVars,
                 procVars, bitsVars, covVars, outVars>>

NextMake == AddViewerTrace \/ AddCbmcTrace \/ DoMakeTrace

SpecMake == Init /\ [][NextMake]_vars

\* C13: do_make_trace with no viewer-trace files and no CBMC result files
\* returns, without error, a valid Trace object whose traces mapping is
\* empty and whose serialization is {"viewer-trace": {"traces": {}}}.
C13_EmptyInput ==
    (make.at = "done" /\ make.viewer_trace = <<>> /\ make.cbmc_trace = <<>>)
        => /\ make.result.status = "ok"
           /\ DOMAIN make.result.traces = {}
           /\ validate(make.result.traces)
           /\ Trace_str(make.result.traces) =
                 JsonObject("viewer-trace" :>
                     JsonObject("traces" :> JsonObject(EmptyDict)))

C13_Witness ==
    /\ make.at = "done"
    /\ make.viewer_trace = <<>>
    /\ make.cbmc_trace = <<>>
    /\ make.srcdir = <<"/", "r">>
    /\ make.wkdir = None
    /\ make.result.status = "ok"
    /\ make.result.traces = EmptyDict

-----------------------------------------------------------------------------
(* tracet.py: the step parsers of the xml and json formats.  A raw step is *)
(* a step as CBMC wrote it: fmt is the format of the file, kind the tag of *)
(* the xml element or the stepType of the json object, hidden is TRUE for  *)
(* the xml attribute hidden='true' or a true json hidden, akind is the     *)
(* assignment type, lhs the full_lhs or lhs, name the function's display   *)
(* name, and location the source location CBMC gave.  The root that the    *)
(* Trace object passes down is /r.                                         *)

MaxRaw == 2         \* longest raw trace handed to a step parser

RawStep(fmt, kind, hidden, akind, lhs, name) ==
    [fmt |-> fmt, kind |-> kind, hidden |-> hidden, akind |-> akind,
     lhs |-> lhs, name |-> name,
     location |-> [path |-> <<"/", "r", "/", "a">>, func |-> Fn_main,
                   line |-> LineStr(<<"7">>), wkdir |-> <<"/", "w">>]]

\* xml_srcloc and json_srcloc: both hand the parts of the location to
\* make_srcloc (a location that is missing has None for every part)
cbmc_srcloc(location, root) ==
    make_srcloc(location.path, location.func, location.line,
                location.wkdir, root).value

\* what parsing one step gives: a step to keep, nothing (with or without a
\* logged warning), or an exception
Keep(step) == [status |-> "ok", kept |-> TRUE, warning |-> FALSE, step |-> step]
Skip(warning) == [status |-> "ok", kept |-> FALSE, warning |-> warning]
RaiseStep == [status |-> "UserWarning", kept |-> FALSE, warning |-> FALSE]

\* In the step parsers below, location is what xml_srcloc or json_srcloc
\* gives for the location of the step, which is also the location of the
\* function of a call or return.

\* parse_xml_failure and parse_json_failure
parse_failure(step, location) ==
    Step("failure", location, step.hidden,
         [property |-> None, reason |-> <<"r">>])

\* parse_xml_assignment and parse_json_assignment: variable and parameter
\* name the two assignment types of the format (the xml step has no
\* identifier attribute and the json value no binary member)
parse_assignment(step, location, variable, parameter) ==
    IF step.akind \notin {variable, parameter} THEN RaiseStep
    ELSE Keep(Step(IF step.akind = variable THEN "variable-assignment"
                   ELSE "parameter-assignment",
                   location, step.hidden,
                   [lhs |-> step.lhs, lhs_lexical_scope |-> None,
                    rhs_value |-> <<"1">>, rhs_binary |-> None]))

\* parse_xml_function_call, parse_xml_function_return and the json ones;
\* name-path is the identifier in xml and None in json
parse_function(kind, step, location) ==
    Step(kind, location, step.hidden,
         CallDetail(step.name,
                    IF step.fmt = "xml" THEN step.name ELSE None,
                    location))

\* variant: every hidden xml step is skipped unless it is a call or return
xml_hidden_skip_assignments(step) ==
    step.hidden /\ step.kind \notin {"function_call", "function_return"}

\* parse_xml_step: the hidden steps that are skipped
xml_hidden_skip(step) ==
    /\ step.hidden
    /\ step.kind \notin {"function_call", "function_return"}
    /\ ~(/\ step.kind = "assignment"
         /\ ~str_startswith(step.lhs, <<"_", "_", "C", "P", "R", "O", "V", "E", "R">>)
         /\ ~str_startswith(step.lhs, <<"r", "e", "t", "u", "r", "n", "_",
                                        "v", "a", "l", "u", "e", "_">>))

\* variant: no kind is skipped without a warning
xml_unknown_kind_warned(kind) == Skip(TRUE)

\* parse_xml_step: a kind that has no parser
xml_unknown_kind(kind) == Skip(kind \notin {"loop-head"})

parse_xml_step(step, location) ==
    IF xml_hidden_skip(step) THEN Skip(FALSE)
    ELSE CASE step.kind = "failure" -> Keep(parse_failure(step, location))
           [] step.kind = "assignment" ->
                parse_assignment(step, location, <<"state">>,
                                 <<"actual_parameter">>)
           [] step.kind = "function_call" ->
                Keep(parse_function("function-call", step, location))
           [] step.kind = "function_return" ->
                Keep(parse_function("function-return", step, location))
           [] step.kind = "location-only" -> Skip(FALSE)
           [] OTHER -> xml_unknown_kind(step.kind)

\* variant: every hidden json step is skipped
json_hidden_skip_all(step) == step.hidden

\* parse_json_step: the hidden steps that are skipped
json_hidden_skip(step) ==
    step.hidden /\ step.kind \notin {"function-call", "function-return"}

\* variant: a kind that has no parser is skipped
json_unknown_kind_skipped(kind) == Skip(TRUE)

\* parse_json_step: a kind that has no parser
json_unknown_kind(kind) == RaiseStep

parse_json_step(step, location) ==
    IF json_hidden_skip(step) THEN Skip(FALSE)
    ELSE CASE step.kind = "failure" -> Keep(parse_failure(step, location))
           [] step.kind = "assignment" ->
                parse_assignment(step, location, <<"variable">>,
                                 <<"actual-parameter">>)
           [] step.kind = "function-call" ->
                Keep(parse_function("function-call", step, location))
           [] step.kind = "function-return" ->
                Keep(parse_function("function-return", step, location))
           [] step.kind = "location-only" -> Skip(FALSE)
           [] OTHER -> json_unknown_kind(step.kind)

\* parse_xml_trace and parse_json_trace on the results of the step parser:
\* the first exception ends the call; otherwise the steps kept, in order.
\* warnings are the kinds logged at warning level before the call ended.
parse_trace(steps, results) ==
    LET raising == {k \in 1..Len(steps) : results[k].status # "ok"}
        last == IF raising = {} THEN Len(steps)
                ELSE (CHOOSE k \in raising : \A j \in raising : k <= j) - 1
        done == SubSeq(results, 1, last)
        kinds == [k \in 1..last |-> steps[k].kind]
        warned == SelectSeq([k \in 1..last |-> k], LAMBDA k : results[k].warning)
        kept == SelectSeq(done, LAMBDA r : r.kept)
    IN  [status |-> IF raising = {} THEN "ok" ELSE "UserWarning",
         fmt |-> IF steps = <<>> THEN "none" ELSE steps[1].fmt,
         trace |-> IF raising = {} THEN [k \in 1..Len(kept) |-> kept[k].step]
                   ELSE <<>>,
         warnings |-> [k \in 1..Len(warned) |-> kinds[warned[k]]]]

parse_xml_trace(steps, root) ==
    parse_trace(steps, [k \in 1..Len(steps) |->
        parse_xml_step(steps[k], cbmc_srcloc(steps[k].location, root))])

parse_json_trace(steps, root) ==
    parse_trace(steps, [k \in 1..Len(steps) |->
        parse_json_step(steps[k], cbmc_srcloc(steps[k].location, root))])

\* the raw steps of a format: every kind, hidden or not; an assignment has
\* one of the format's two types or another one, and a left-hand side that
\* is a program variable or one of the two internal ones
RawSteps(fmt, call, return, variable, parameter) ==
    {RawStep(fmt, kind, hidden, None, None, None) :
        kind \in {"failure", "location-only", "loop-head", "output"},
        hidden \in BOOLEAN}
    \cup {RawStep(fmt, kind, hidden, None, None, Name_f) :
        kind \in {call, return}, hidden \in BOOLEAN}
    \cup {RawStep(fmt, "assignment", hidden, akind, lhs, None) :
        hidden \in BOOLEAN,
        akind \in {variable, parameter, <<"o">>},
        lhs \in {<<"x">>,
                 <<"_", "_", "C", "P", "R", "O", "V", "E", "R", "_", "x">>,
                 <<"r", "e", "t", "u", "r", "n", "_", "v", "a", "l", "u", "e",
                   "_", "f">>}}

-----------------------------------------------------------------------------
(* The step-parser specification: CBMC writes the steps of one trace in    *)
(* one format, and the trace parser of that format is called on them.      *)

WriteXmlStep ==
    /\ parsedsteps.status = "none"
    /\ Len(rawsteps) < MaxRaw
    /\ \A k \in 1..Len(rawsteps) : rawsteps[k].fmt = "xml"
    /\ \E s \in RawSteps("xml", "function_call", "function_return",
                         <<"state">>, <<"actual_parameter">>) :
        rawsteps' = Append(rawsteps, s)
    /\ UNCHANGED <<parsedsteps, traceVars, buildVars, locVars, textVars, makeVars,
                 procVars, bitsVars, covVars, outVars>>

WriteJsonStep ==
    /\ parsedsteps.status = "none"
    /\ Len(rawsteps) < MaxRaw
    /\ \A k \in 1..Len(rawsteps) : rawsteps[k].fmt = "json"
    /\ \E s \in RawSteps("json", "function-call", "function-return",
                         <<"variable">>, <<"actual-parameter">>) :
        rawsteps' = Append(rawsteps, s)
    /\ UNCHANGED <<parsedsteps, traceVars, buildVars, locVars, textVars, makeVars,
                 procVars, bitsVars, covVars, outVars>>

ParseXmlTrace ==
    /\ parsedsteps.status = "none"
    /\ \A k \in 1..Len(rawsteps) : rawsteps[k].fmt = "xml"
    /\ parsedsteps' = [parse_xml_trace(rawsteps, <<"/", "r">>) EXCEPT !.fmt = "xml"]
    /\ UNCHANGED <<rawsteps, traceVars, buildVars, locVars, textVars, makeVars,
                 procVars, bitsVars, covVars, outVars>>

ParseJsonTrace ==
    /\ parsedsteps.status = "none"
    /\ \A k \in 1..Len(rawsteps) : rawsteps[k].fmt = "json"
    /\ parsedsteps' = [parse_json_trace(rawsteps, <<"/", "r">>) EXCEPT !.fmt = "json"]
    /\ UNCHANGED <<rawsteps, traceVars, buildVars, locVars, textVars, makeVars,
                 procVars, bitsVars, covVars, outVars>>

NextSteps == WriteXmlStep \/ WriteJsonStep \/ ParseXmlTrace \/ ParseJsonTrace

SpecSteps == Init /\ [][NextSteps]_vars


\* the kinds that have a parser, under the names of either format
KnownKinds ==
    {"failure", "assignment", "function_call", "function_return",
     "function-call", "function-return", "location-only"}

IsRawCall(s) == s.kind \in {"function_call", "function-call"}
IsRawReturn(s) == s.kind \in {"function_return", "function-return"}

\* an assignment whose type is one of the two types of its format
GoodAssignment(s) ==
    s.akind \in (IF s.fmt = "xml" THEN {<<"state">>, <<"actual_parameter">>}
                 ELSE {<<"variable">>, <<"actual-parameter">>})

\* a left-hand side that starts with neither __CPROVER nor return_value_
VisibleLhs(lhs) ==
    /\ ~(Len(lhs) >= 9 /\ SubSeq(lhs, 1, 9) =
           <<"_", "_", "C", "P", "R", "O", "V", "E", "R">>)
    /\ ~(Len(lhs) >= 13 /\ SubSeq(lhs, 1, 13) =
           <<"r", "e", "t", "u", "r", "n", "_", "v", "a", "l", "u", "e", "_">>)

\* the parsed step is the raw step: same kind, hidden flag and content
SameStep(parsed, raw) ==
    /\ parsed.hidden = raw.hidden
    /\ parsed.location = SrcLoc(<<"a">>, Fn_main, 7)
    /\ CASE raw.kind = "failure" -> parsed.kind = "failure"
         [] IsRawCall(raw) ->
              parsed.kind = "function-call" /\ parsed.detail.name = raw.name
         [] IsRawReturn(raw) ->
              parsed.kind = "function-return" /\ parsed.detail.name = raw.name
         [] raw.kind = "assignment" ->
              /\ parsed.kind = IF raw.akind \in {<<"state">>, <<"variable">>}
                               THEN "variable-assignment"
                               ELSE "parameter-assignment"
              /\ parsed.detail.lhs = raw.lhs
         [] OTHER -> FALSE

\* the parsed trace is exactly the raw steps expected, in order
KeptInOrder(expected) ==
    /\ Len(parsedsteps.trace) = Len(expected)
    /\ \A k \in 1..Len(expected) : SameStep(parsedsteps.trace[k], expected[k])

\* the steps the xml parser is to keep, and the ones the json parser is
XmlKeeps(s) ==
    /\ s.kind \in {"failure", "assignment", "function_call", "function_return"}
    /\ s.hidden => \/ IsRawCall(s) \/ IsRawReturn(s)
                   \/ (s.kind = "assignment" /\ VisibleLhs(s.lhs))

JsonKeeps(s) ==
    /\ s.kind \in {"failure", "assignment", "function-call", "function-return"}
    /\ s.hidden => (IsRawCall(s) \/ IsRawReturn(s))

\* C14 as stated: in both parsers, a step (hidden or not) of a kind outside
\* the known set that is not loop-head makes the parse fail.
C14_UnknownKindFatal ==
    (/\ parsedsteps.status # "none"
     /\ \E k \in 1..Len(rawsteps) :
            rawsteps[k].kind \notin KnownKinds \cup {"loop-head"})
        => parsedsteps.status # "ok"

\* C14 amended: only the json parser fails on a kind that has no parser, and
\* only for a step that is not hidden (loop-head included): such a step makes
\* parse_json_trace raise UserWarning; a hidden one is dropped.  The xml
\* parser never fails on a kind: with every assignment of a known type,
\* parse_xml_trace returns, whatever the kinds of the steps.
C14_UnknownKindFatalInJson ==
    /\ parsedsteps.fmt = "json" =>
          /\ (\E k \in 1..Len(rawsteps) :
                 ~rawsteps[k].hidden /\ rawsteps[k].kind \notin KnownKinds)
                => parsedsteps.status = "UserWarning"
          /\ (\A k \in 1..Len(rawsteps) :
                 ~rawsteps[k].hidden =>
                    /\ rawsteps[k].kind \in KnownKinds
                    /\ (rawsteps[k].kind = "assignment"
                          => GoodAssignment(rawsteps[k])))
                => parsedsteps.status = "ok"
    /\ parsedsteps.fmt = "xml" =>
          ((\A k \in 1..Len(rawsteps) :
               rawsteps[k].kind = "assignment" => GoodAssignment(rawsteps[k]))
             => parsedsteps.status = "ok")

C14_Witness ==
    /\ parsedsteps.fmt = "json"
    /\ parsedsteps.status = "UserWarning"
    /\ Len(rawsteps) = 2
    /\ rawsteps[1].kind = "output" /\ rawsteps[1].hidden
    /\ rawsteps[2].kind = "output" /\ ~rawsteps[2].hidden

\* the kinds of the steps chosen, in order
KindsOf(chosen) == [k \in 1..Len(chosen) |-> chosen[k].kind]

\* C15 as stated: parse_xml_step drops a loop-head step without a warning
\* and a step of any other kind without a parser with a warning; parsing
\* continues and the other steps are kept in order.
C15_XmlNoise ==
    (parsedsteps.fmt = "xml" /\ parsedsteps.status = "ok") =>
        /\ parsedsteps.warnings =
              KindsOf(SelectSeq(rawsteps, LAMBDA s :
                          s.kind \notin KnownKinds \cup {"loop-head"}))
        /\ KeptInOrder(SelectSeq(rawsteps, XmlKeeps))

\* C15 amended: the warning is logged for the steps that are not hidden
\* only; a hidden step of a kind without a parser is dropped without one.
C15_XmlNoiseNotHidden ==
    (parsedsteps.fmt = "xml" /\ parsedsteps.status = "ok") =>
        /\ parsedsteps.warnings =
              KindsOf(SelectSeq(rawsteps, LAMBDA s :
                          /\ ~s.hidden
                          /\ s.kind \notin KnownKinds \cup {"loop-head"}))
        /\ KeptInOrder(SelectSeq(rawsteps, XmlKeeps))

C15_Witness ==
    /\ parsedsteps.fmt = "xml"
    /\ parsedsteps.status = "ok"
    /\ Len(rawsteps) = 2
    /\ rawsteps[1].kind = "output" /\ ~rawsteps[1].hidden
    /\ rawsteps[2].kind = "failure" /\ ~rawsteps[2].hidden
    /\ parsedsteps.warnings = <<"output">>
    /\ Len(parsedsteps.trace) = 1
    /\ parsedsteps.trace[1].kind = "failure"

\* C17: whenever parse_json_trace returns, it has kept a hidden step if and
\* only if it is a function-call or function-return, with hidden = true, it
\* has kept every failure, assignment, function-call and function-return
\* that is not hidden with hidden = false, it has dropped the location-only
\* steps, and the kept steps are in the input order.  (It does not return
\* when a step that is not hidden has a kind or an assignment type that has
\* no parser.)
C17_JsonHiddenRule ==
    (parsedsteps.fmt = "json" /\ parsedsteps.status = "ok") =>
        /\ KeptInOrder(SelectSeq(rawsteps, JsonKeeps))
        /\ \A k \in 1..Len(parsedsteps.trace) :
              parsedsteps.trace[k].hidden =>
                 parsedsteps.trace[k].kind \in {"function-call", "function-return"}

C17_Witness ==
    /\ parsedsteps.fmt = "json"
    /\ parsedsteps.status = "ok"
    /\ Len(rawsteps) = 2
    /\ rawsteps[1].kind = "assignment" /\ rawsteps[1].hidden
    /\ rawsteps[1].lhs = <<"x">>
    /\ rawsteps[2].kind = "function-return" /\ rawsteps[2].hidden
    /\ Len(parsedsteps.trace) = 1
    /\ parsedsteps.trace[1].kind = "function-return"
    /\ parsedsteps.trace[1].hidden

\* C18: whenever parse_xml_trace returns, parse_xml_step has kept a step
\* with hidden='true' if and only if it is a function_call, a
\* function_return, or an assignment whose full_lhs starts with neither
\* __CPROVER nor return_value_; a kept hidden step has hidden = true, and
\* every other hidden step, a hidden failure included, is dropped.
C18_XmlHiddenRule ==
    (parsedsteps.fmt = "xml" /\ parsedsteps.status = "ok") =>
        LET hidden_in == SelectSeq(rawsteps, LAMBDA s :
                            /\ s.hidden
                            /\ \/ IsRawCall(s) \/ IsRawReturn(s)
                               \/ (s.kind = "assignment" /\ VisibleLhs(s.lhs)))
            hidden_out == SelectSeq(parsedsteps.trace, LAMBDA s : s.hidden)
        IN  /\ Len(hidden_out) = Len(hidden_in)
            /\ \A k \in 1..Len(hidden_in) : SameStep(hidden_out[k], hidden_in[k])

C18_Witness ==
    /\ parsedsteps.fmt = "xml"
    /\ parsedsteps.status = "ok"
    /\ Len(rawsteps) = 2
    /\ rawsteps[1].kind = "assignment" /\ rawsteps[1].hidden
    /\ rawsteps[1].lhs = <<"x">>
    /\ rawsteps[2].kind = "failure" /\ rawsteps[2].hidden
    /\ Len(parsedsteps.trace) = 1
    /\ parsedsteps.trace[1].kind = "variable-assignment"
    /\ parsedsteps.trace[1].hidden

-----------------------------------------------------------------------------
(* tracet.py: parse_text_traces.  A block of the text output is what it    *)
(* starts with (head), the NAME of a 'Trace for NAME:' header, and the     *)
(* text of its last line.  The blocks of a trace are well formed.  The     *)
(* name None is written "".                                                *)

MaxBlocks == 4      \* most blocks of one text output file

Block(head, name, text) == [head |-> head, name |-> name, text |-> text]

\* parse_text_state, parse_text_assumption, parse_text_failure: the source
\* location is 'file a function m line 7', resolved by text_srcloc
parse_text_block(block, root, wkdir) ==
    LET srcloc == cbmc_srcloc([path |-> <<"a">>, func |-> Fn_main,
                               line |-> LineStr(<<"7">>), wkdir |-> wkdir],
                              root)
    IN  CASE block.head = "State" ->
               Step("variable-assignment", srcloc, FALSE,
                    [lhs |-> block.text, lhs_lexical_scope |-> None,
                     rhs_value |-> <<"1">>, rhs_binary |-> None])
          [] block.head = "Assumption" ->
               Step("assumption", srcloc, FALSE, [predicate |-> block.text])
          [] block.head = "Violated property" ->
               Step("failure", srcloc, FALSE,
                    [property |-> None, reason |-> block.text])

\* the loop of parse_text_traces over the blocks, from block k on
RECURSIVE parse_text_loop(_, _, _, _, _, _, _, _)
parse_text_loop(blocks_, k, traces, name, trace_, in_trace, root, wkdir) ==
    IF k > Len(blocks_) THEN Return_(traces)
    ELSE LET block == blocks_[k]
         IN  IF block.head = "Trace for"
             THEN parse_text_loop(blocks_, k + 1,
                                  IF name # "" THEN Put(traces, name, trace_)
                                  ELSE traces,
                                  block.name, <<>>, TRUE, root, wkdir)
             ELSE IF ~in_trace
             THEN parse_text_loop(blocks_, k + 1, traces, name, trace_,
                                  in_trace, root, wkdir)
             ELSE IF block.head \in {"State", "Assumption", "Violated property"}
             THEN parse_text_loop(blocks_, k + 1, traces, name,
                                  Append(trace_, parse_text_block(block, root, wkdir)),
                                  in_trace, root, wkdir)
             ELSE IF block.head = "** "
             THEN Return_(IF name # "" THEN Put(traces, name, trace_)
                          ELSE traces)
             ELSE Raise("UserWarning")

\* parse_text_traces on the blocks of the file
parse_text_blocks(blocks_, root, wkdir) ==
    parse_text_loop(blocks_, 1, EmptyDict, "", <<>>, FALSE, root, wkdir)

\* the blocks CBMC writes: headers of two properties, the three blocks of a
\* trace, the summary that starts with '** ', and any other block
BlockUniverse ==
    {Block("Trace for", "p", <<"p">>), Block("Trace for", "q", <<"q">>),
     Block("State", "", <<"x">>), Block("Assumption", "", <<"y">>),
     Block("Violated property", "", <<"z">>),
     Block("** ", "", <<"s">>), Block("other", "", <<"o">>)}

-----------------------------------------------------------------------------
(* The text-parser specification: CBMC writes the blocks of a text output  *)
(* file, and parse_text_traces is called on the file.                       *)

WriteBlock ==
    /\ texttraces.status = "none"
    /\ Len(blocks) < MaxBlocks
    /\ \E b \in BlockUniverse : blocks' = Append(blocks, b)
    /\ UNCHANGED <<texttraces, traceVars, buildVars, locVars, stepVars, makeVars,
                 procVars, bitsVars, covVars, outVars>>

ParseTextTraces ==
    /\ texttraces.status = "none"
    /\ texttraces' = parse_text_blocks(blocks, <<"/", "r">>, <<"/", "r">>)
    /\ UNCHANGED <<blocks, traceVars, buildVars, locVars, stepVars, makeVars,
                 procVars, bitsVars, covVars, outVars>>

NextText == WriteBlock \/ ParseTextTraces

SpecText == Init /\ [][NextText]_vars

\* the index of the first block after h that closes the trace opened at h
\* (the next header or the '** ' block), or the index after the last block
SegmentEnd(h) ==
    LET closing == {k \in (h + 1)..Len(blocks) :
                       blocks[k].head \in {"Trace for", "** "}}
    IN  IF closing = {} THEN Len(blocks) + 1
        ELSE CHOOSE k \in closing : \A j \in closing : k <= j

\* the State, Assumption and Violated property blocks of the trace opened
\* at h, in input order
SegmentBlocks(h) ==
    SelectSeq(SubSeq(blocks, h + 1, SegmentEnd(h) - 1),
              LAMBDA b : b.head \in {"State", "Assumption", "Violated property"})

\* the headers that occur before the first '** ' block
OpenedHeaders ==
    {h \in 1..Len(blocks) :
        /\ blocks[h].head = "Trace for"
        /\ \A k \in 1..h : blocks[k].head # "** "}

\* C16: whenever parse_text_traces returns, every trace header that occurs
\* before the first '** ' block has an entry under its NAME that holds
\* exactly one step per State / Assumption / Violated property block that
\* follows it up to the block that closes it or the end of the input, in
\* input order; blocks before the first header add nothing.
C16_TextAccumulation ==
    texttraces.status = "ok" =>
        /\ \A h \in OpenedHeaders :
              /\ blocks[h].name \in DOMAIN texttraces.traces
              /\ LET steps == texttraces.traces[blocks[h].name]
                     expected == SegmentBlocks(h)
                 IN  /\ Len(steps) = Len(expected)
                     /\ \A k \in 1..Len(expected) :
                           /\ steps[k].kind =
                                 (CASE expected[k].head = "State" -> "variable-assignment"
                                    [] expected[k].head = "Assumption" -> "assumption"
                                    [] OTHER -> "failure")
                           /\ ~steps[k].hidden
        /\ \A n \in DOMAIN texttraces.traces :
              \E h \in OpenedHeaders : blocks[h].name = n

-----------------------------------------------------------------------------
(* Claims about builtin names *)

\* C21: for every path whose last component is a bracketed name and every
\* line that is not None, make_srcloc returns a location whose file is that
\* bracketed name alone, whatever the working directory and the root are.
C21_BuiltinNames ==
    (/\ loc.at = "done"
     /\ loc.path \in {<<"/", "w", "/", "<", "b", ">">>, <<"<", "b", ">">>}
     /\ loc.line # LineNone)
        => /\ loc.result.status = "ok"
           /\ loc.result.value.file = <<"<", "b", ">">>

-----------------------------------------------------------------------------
(* Claims about a return that no call precedes *)

\* C22: when close_function_stack_frames meets a function-return step while
\* its stack is empty, it raises UserWarning, the exception of the name
\* mismatch that the make-trace entry point turns into an exit message; the
\* step is not accepted and nothing is appended to the list.
C22_ReturnWithoutCall ==
    (/\ pc = "closed"
     /\ \E j \in 1..Len(input) :
           /\ IsReturn(input, j)
           /\ \A i \in 1..(j - 1) : ~IsCall(input, i) /\ ~IsReturn(input, i))
        => /\ status = "UserWarning"
           /\ trace = input

-----------------------------------------------------------------------------
(* One Python process.  MISSING_SRCLOC is a module-level dict: make_srcloc *)
(* returns that object itself and strip_external_srclocs stores it in the  *)
(* steps, so the steps of every TraceSet built in the process share it.    *)
(* The heap holds the module-level objects; a location slot of a step      *)
(* holds either a dict of its own (a record) or SentinelRef, a reference   *)
(* to the shared object.  Functions that can reach the shared object take  *)
(* the heap and give it back.                                              *)

SentinelRef == [ref |-> "MISSING_SRCLOC"]

\* variant: the sentinel records the function of the location it stands for
make_srcloc_object_stamped(heap, location, root) ==
    LET object(r) ==
            IF r.status = "AssertionError"
            THEN [heap |-> [heap EXCEPT
                               !.MISSING_SRCLOC.function = location.func],
                  location |-> SentinelRef]
            ELSE [heap |-> heap, location |-> r.value]
    IN  object(try_make_srcloc(location.path, location.func, location.line,
                               location.wkdir, root))

\* make_srcloc, as xml_srcloc and json_srcloc call it: a new dict, or the
\* shared object when the location is useless
make_srcloc_object(heap, location, root) ==
    LET object(r) ==
            IF r.status = "AssertionError"
            THEN [heap |-> heap, location |-> SentinelRef]
            ELSE [heap |-> heap, location |-> r.value]
    IN  object(try_make_srcloc(location.path, location.func, location.line,
                               location.wkdir, root))

\* parse_xml_trace and parse_json_trace on the calls, returns and failures
\* of a trace, from step k on: every step is a new dict
RECURSIVE parse_objects(_, _, _, _)
parse_objects(heap, steps, k, root) ==
    IF k > Len(steps) THEN [heap |-> heap, steps |-> <<>>]
    ELSE LET cons(step, rest) ==
                 [heap |-> rest.heap, steps |-> <<step>> \o rest.steps]
             failure(l) ==
                 cons(Step("failure", l.location, FALSE,
                           [property |-> None, reason |-> <<"r">>]),
                      parse_objects(l.heap, steps, k + 1, root))
             call(l, c) ==
                 cons(Step(steps[k].kind, l.location, FALSE,
                           CallDetail(steps[k].name, None, c.location)),
                      parse_objects(c.heap, steps, k + 1, root))
             step(l) ==
                 IF steps[k].kind = "failure" THEN failure(l)
                 ELSE call(l, make_srcloc_object(l.heap, steps[k].callee, root))
         IN  step(make_srcloc_object(heap, steps[k].location, root))

\* the body of the loop of strip_external_srclocs on one step: a slot is
\* read through the object it holds, and is assigned the shared object
strip_object(heap, step) ==
    LET file(l) == IF l = SentinelRef THEN heap.MISSING_SRCLOC.file ELSE l.file
        s1 == IF startswith(file(step.location), "/")
              THEN [step EXCEPT !.location = SentinelRef]
              ELSE step
    IN  IF "location" \in DOMAIN s1.detail
           /\ startswith(file(s1.detail.location), "/")
        THEN [s1 EXCEPT !.detail.location = SentinelRef]
        ELSE s1

\* TraceFromCbmcJson / TraceFromCbmcXml on one file with one trace: parse,
\* then Trace.merge (close_function_stack_frames, strip_external_srclocs)
Trace_build(heap, steps, root) ==
    LET filtered(heap_, closed) ==
            IF closed.status # "ok"
            THEN [heap |-> heap_, status |-> closed.status, trace |-> <<>>]
            ELSE [heap |-> heap_, status |-> "ok",
                  trace |-> [k \in 1..Len(closed.trace) |->
                                strip_object(heap_, closed.trace[k])]]
        reconciled(parsed) ==
            filtered(parsed.heap, close_function_stack_frames(parsed.steps))
    IN  reconciled(parse_objects(heap, steps, 1, root))

\* CBMC writes one step of the trace of its output file: a call or return
\* of f or a failure, at a location under the root /r, outside it, or
\* without a file
WriteRawStep ==
    /\ proc.builds = <<>>
    /\ Len(proc.raw) < MaxRaw
    /\ \E kind \in {"function-call", "function-return", "failure"},
          name \in {Name_f},
          l, c \in {[path |-> <<"/", "r", "/", "a">>, func |-> Fn_main,
                     line |-> LineStr(<<"7">>), wkdir |-> <<"/", "w">>],
                    [path |-> <<"/", "h">>, func |-> None,
                     line |-> LineStr(<<"1", "2">>), wkdir |-> None],
                    [path |-> None, func |-> Fn_main,
                     line |-> LineNone, wkdir |-> None]} :
        /\ kind = "failure" => c = l
        /\ kind = "function-return" => c = l
        /\ proc' = [proc EXCEPT !.raw = Append(@,
                       [kind |-> kind, name |-> name,
                        location |-> l, callee |-> c])]
    /\ UNCHANGED <<traceVars, buildVars, locVars, stepVars, textVars,
                 makeVars, bitsVars, covVars, outVars>>

\* the process builds a TraceSet from the output file, up to two times
BuildTraceSet ==
    /\ Len(proc.builds) < 2
    /\ \E b \in {Trace_build(proc.heap, proc.raw, <<"/", "r">>)} :
          proc' = [proc EXCEPT !.heap = b.heap,
                               !.builds = Append(@, [status |-> b.status,
                                                    trace |-> b.trace])]
    /\ UNCHANGED <<traceVars, buildVars, locVars, stepVars, textVars,
                 makeVars, bitsVars, covVars, outVars>>

NextProc == WriteRawStep \/ BuildTraceSet

SpecProc == Init /\ [][NextProc]_vars

\* a trace as a comparison or json.dumps sees it: every slot that holds the
\* shared object shows what the object holds now
Seen(steps) ==
    LET value(l) == IF l = SentinelRef THEN proc.heap.MISSING_SRCLOC ELSE l
    IN  [k \in 1..Len(steps) |->
            [steps[k] EXCEPT
                !.location = value(@),
                !.detail = IF "location" \in DOMAIN @
                           THEN [@ EXCEPT !.location = value(@)] ELSE @]]

\* C23: no sequence of parse, reconcile and filter operations modifies the
\* module-level state: MISSING_SRCLOC is {MISSING, MISSING, 0} after every
\* build; filtering only makes slots hold the shared object, so that no
\* location seen in a built trace has a file that starts with '/'; and two
\* successive builds in one process from the same output file end alike and
\* yield equal traces.
C23_NoStateLeak ==
    /\ proc.heap.MISSING_SRCLOC = MISSING_SRCLOC
    /\ \A i \in 1..Len(proc.builds) :
          \A l \in Locations(Seen(proc.builds[i].trace)) : l.file[1] # "/"
    /\ Len(proc.builds) = 2 =>
          /\ proc.builds[1].status = proc.builds[2].status
          /\ Seen(proc.builds[1].trace) = Seen(proc.builds[2].trace)

C23_Witness ==
    /\ Len(proc.builds) = 2
    /\ proc.builds[2].status = "ok"
    /\ Len(proc.raw) = 2
    /\ proc.raw[1].kind = "function-call"
    /\ proc.raw[1].location.path = None
    /\ proc.raw[1].callee.path = <<"/", "h">>
    /\ proc.raw[2].kind = "failure"
    /\ proc.raw[2].location.path = <<"/", "r", "/", "a">>
    /\ Len(proc.builds[2].trace) = 3
    /\ proc.builds[2].trace[1].location = SentinelRef
    /\ proc.builds[2].trace[1].detail.location = SentinelRef
    /\ proc.builds[2].trace[3].detail.location = SentinelRef
    /\ proc.builds[2].trace[3].location = SrcLoc(<<"a">>, Fn_main, 7)

-----------------------------------------------------------------------------
(* coveraget.py: line coverage.  A member of the enum Status is written    *)
(* <<"HIT">>, <<"MISSED">> or <<"BOTH">>.  Raw coverage data is a dict     *)
(* file name -> function name -> line -> status; it is written as the      *)
(* sequence of its items [file, func, line, status] in the order in which  *)
(* the nested loops over the dict visit them (a dict keeps the order in    *)
(* which its keys were first set); <<>> is coverage data that is missing   *)
(* (None) or empty.                                                        *)

MaxCov == 2         \* most coverage sets handed to Coverage

Status == {<<"HIT">>, <<"MISSED">>, <<"BOTH">>}

\* variant: a differing status is dropped
combine_keep_self(self, status_) == self

\* Status.combine(self, status) for a status that is None or a Status (on
\* which Status.new is the identity)
combine(self, status_) ==
    IF status_ = None THEN self
    ELSE IF self = status_ THEN self
    ELSE <<"BOTH">>

\* coverage[filename][func][line] = cov, after coverage[filename] and
\* coverage[filename][func] were set to what they hold or to {}: a new key
\* comes last in its dict
coverage_set(coverage, filename, func, line, cov_) ==
    LET item == [file |-> filename, func |-> func, line |-> line, status |-> cov_]
        same == {k \in 1..Len(coverage) :
                    /\ coverage[k].file = filename
                    /\ coverage[k].func = func
                    /\ coverage[k].line = line}
        in_func == {k \in 1..Len(coverage) :
                       coverage[k].file = filename /\ coverage[k].func = func}
        in_file == {k \in 1..Len(coverage) : coverage[k].file = filename}
        after == IF in_func # {} THEN Max(in_func)
                 ELSE IF in_file # {} THEN Max(in_file)
                 ELSE Len(coverage)
    IN  IF same # {}
        THEN [coverage EXCEPT ![Max(same)] = item]
        ELSE SubSeq(coverage, 1, after) \o <<item>>
             \o SubSeq(coverage, after + 1, Len(coverage))

\* coverage[filename][func].get(line)
coverage_get(coverage, filename, func, line) ==
    LET same == {k \in 1..Len(coverage) :
                    /\ coverage[k].file = filename
                    /\ coverage[k].func = func
                    /\ coverage[k].line = line}
    IN  IF same = {} THEN None ELSE coverage[Max(same)].status

\* the loops of merge_coverage_data, from item k of coverage set i on
RECURSIVE merge_coverage_loop(_, _, _, _)
merge_coverage_loop(coverage, coverage_list, i, k) ==
    IF i > Len(coverage_list) THEN coverage
    ELSE IF coverage_list[i] = <<>> \/ k > Len(coverage_list[i])
    THEN merge_coverage_loop(coverage, coverage_list, i + 1, 1)
    ELSE LET item == coverage_list[i][k]
         IN  IF startswith(item.file, "/")
             THEN merge_coverage_loop(coverage, coverage_list, i, k + 1)
             ELSE LET cov_ == coverage_get(coverage, item.file, item.func,
                                          item.line)
                  IN  merge_coverage_loop(
                          coverage_set(coverage, item.file, item.func,
                                       item.line, combine(item.status, cov_)),
                          coverage_list, i, k + 1)

merge_coverage_data(coverage_list) ==
    merge_coverage_loop(<<>>, coverage_list, 1, 1)

\* line_coverage[filename][line] = status for every item in turn: the item
\* visited last stays
extract_line_coverage(coverage) ==
    [key \in {<<coverage[k].file, coverage[k].line>> : k \in 1..Len(coverage)} |->
        coverage[Max({k \in 1..Len(coverage) :
                         <<coverage[k].file, coverage[k].line>> = key})].status]

\* Coverage.lookup: line_coverage.get(filename, {}).get(line)
lookup(line_coverage, filename, line) ==
    IF <<filename, line>> \in DOMAIN line_coverage
    THEN line_coverage[<<filename, line>>] ELSE None

-----------------------------------------------------------------------------
(* The coverage specification: the loaders hand coverage sets to Coverage, *)
(* which merges them and extracts the line coverage.                       *)

\* a loader returns the coverage data of one file: none, or the statuses
\* of line 1 under one or two functions of a.c, or under a function of /h
AddCoverage ==
    /\ covered.at = "list"
    /\ Len(covered.coverage_list) < MaxCov
    /\ \E file \in {File_c, File_h}, n \in 0..2, f1, f2 \in Names,
          s1, s2 \in Status :
        LET i1 == [file |-> file, func |-> f1, line |-> 1, status |-> s1]
            i2 == [file |-> file, func |-> f2, line |-> 1, status |-> s2]
        IN  /\ n = 0 => (file = File_c /\ f1 = Name_f /\ s1 = <<"HIT">>)
            /\ n < 2 => (f2 = f1 /\ s2 = s1)
            /\ n = 2 => (f2 # f1 /\ file = File_c)
            /\ covered' = [covered EXCEPT !.coverage_list = Append(@,
                          CASE n = 0 -> <<>>
                            [] n = 1 -> <<i1>>
                            [] n = 2 -> <<i1, i2>>)]
    /\ UNCHANGED <<traceVars, buildVars, locVars, stepVars, textVars,
                 makeVars, procVars, bitsVars, outVars>>

\* Coverage.__init__: the raw coverage and the line coverage (the function
\* and overall coverage are counts taken from the raw coverage)
MakeCoverage ==
    /\ covered.at = "list"
    /\ LET coverage == merge_coverage_data(covered.coverage_list)
       IN  covered' = [at |-> "done", coverage_list |-> covered.coverage_list,
                   coverage |-> coverage,
                   line_coverage |-> extract_line_coverage(coverage)]
    /\ UNCHANGED <<traceVars, buildVars, locVars, stepVars, textVars,
                 makeVars, procVars, bitsVars, outVars>>

NextCov == AddCoverage \/ MakeCoverage

SpecCov == Init /\ [][NextCov]_vars

\* the statuses that the coverage sets report for a line of a function
Reported(file, func, line) ==
    {covered.coverage_list[i][k].status :
        <<i, k>> \in {p \in (1..Len(covered.coverage_list)) \X (1..2) :
                        /\ p[2] <= Len(covered.coverage_list[p[1]])
                        /\ covered.coverage_list[p[1]][p[2]].file = file
                        /\ covered.coverage_list[p[1]][p[2]].func = func
                        /\ covered.coverage_list[p[1]][p[2]].line = line}}

\* the join of a set of statuses: the status itself when there is one,
\* BOTH when there are several, None when there is none
Join(statuses) ==
    IF statuses = {} THEN None
    ELSE IF Cardinality(statuses) = 1 THEN CHOOSE s \in statuses : TRUE
    ELSE <<"BOTH">>

\* C24: Status.combine over {HIT, MISSED, BOTH} is idempotent, commutative
\* and associative, has None as identity and BOTH as absorbing element; and
\* the status merge_coverage_data gives a (file, function, line) of a file
\* under the source root is the join of all statuses the coverage sets
\* report for it, whatever the order of the sets.
C24_StatusJoin ==
    /\ \A x, y, z \in Status :
          /\ combine(x, x) = x
          /\ combine(x, y) = combine(y, x)
          /\ combine(combine(x, y), z) = combine(x, combine(y, z))
          /\ combine(x, None) = x
          /\ combine(x, <<"BOTH">>) = <<"BOTH">>
          /\ combine(<<"BOTH">>, x) = <<"BOTH">>
    /\ covered.at = "done" =>
          /\ \A func \in Names :
                coverage_get(covered.coverage, File_c, func, 1)
                    = Join(Reported(File_c, func, 1))
          /\ \A k \in 1..Len(covered.coverage) : covered.coverage[k].file = File_c

C24_Witness ==
    /\ covered.at = "done"
    /\ Len(covered.coverage_list) = 2
    /\ Reported(File_c, Name_f, 1) = {<<"HIT">>, <<"MISSED">>}
    /\ Reported(File_c, Name_g, 1) = {<<"MISSED">>}
    /\ coverage_get(covered.coverage, File_c, Name_f, 1) = <<"BOTH">>
    /\ coverage_get(covered.coverage, File_c, Name_g, 1) = <<"MISSED">>

\* C30: for every file and line, Coverage.lookup(file, line) is the join of
\* the statuses recorded for that line under all functions of that file in
\* the merged raw coverage data, in whatever order the functions are
\* iterated.
C30_LineCoverage ==
    covered.at = "done" =>
        \A file \in {File_c, File_h}, line \in 1..2 :
            lookup(covered.line_coverage, file, line) =
                Join({covered.coverage[k].status :
                        k \in {j \in 1..Len(covered.coverage) :
                                  /\ covered.coverage[j].file = file
                                  /\ covered.coverage[j].line = line}})

-----------------------------------------------------------------------------
(* tracet.py: binary_as_bytes.  The white space of the model is the blank. *)

MaxChunks == 4      \* most pieces of the binary string of one value

\* re.sub(r'\s', '', binary)
re_sub_space(binary) == SelectSeq(binary, LAMBDA c : c # " ")

\* variant: a match may start at any character
RECURSIVE findall_overlapping(_, _)
findall_overlapping(bits_, k) ==
    IF k + 7 > Len(bits_) THEN <<>>
    ELSE IF \A j \in k..(k + 7) : bits_[j] \in {"0", "1"}
    THEN <<SubSeq(bits_, k, k + 7)>> \o findall_overlapping(bits_, k + 1)
    ELSE findall_overlapping(bits_, k + 1)

\* re.findall('[01]{8}', bits) from character k on: the matches do not
\* overlap, and the search goes on after a match or one character further
RECURSIVE findall(_, _)
findall(bits_, k) ==
    IF k + 7 > Len(bits_) THEN <<>>
    ELSE IF \A j \in k..(k + 7) : bits_[j] \in {"0", "1"}
    THEN <<SubSeq(bits_, k, k + 7)>> \o findall(bits_, k + 8)
    ELSE findall(bits_, k + 1)

\* sep.join(items)
RECURSIVE join(_, _)
join(sep, items) ==
    IF Len(items) = 0 THEN <<>>
    ELSE IF Len(items) = 1 THEN items[1]
    ELSE items[1] \o sep \o join(sep, Tail(items))

binary_as_bytes(binary) ==
    IF ~Truthy(binary) THEN binary
    ELSE LET bits_ == re_sub_space(binary)
             bites == findall(bits_, 1)
         IN  IF bits_ # join(<<>>, bites) THEN binary
             ELSE join(<<" ">>, bites)

-----------------------------------------------------------------------------
(* The binary specification: a step parser reads the binary string of a    *)
(* value piece by piece, or finds none, and reformats it.                  *)

ReadBinary ==
    /\ bits.at = "input"
    /\ bits.binary # None
    /\ bits.n < MaxChunks
    /\ \E chunk \in {None, <<"0", "1", "1", "0">>, <<"1">>, <<" ">>, <<"x">>} :
        /\ chunk = None => bits.n = 0
        /\ bits' = [bits EXCEPT !.n = @ + 1,
                                !.binary = IF chunk = None THEN None
                                           ELSE @ \o chunk]
    /\ UNCHANGED <<traceVars, buildVars, locVars, stepVars, textVars,
                 makeVars, procVars, covVars, outVars>>

\* binary_as_bytes(binary)
Reformat ==
    /\ bits.at = "input"
    /\ bits' = [at |-> "done", n |-> bits.n, binary |-> bits.binary,
                result |-> binary_as_bytes(bits.binary)]
    /\ UNCHANGED <<traceVars, buildVars, locVars, stepVars, textVars,
                 makeVars, procVars, covVars, outVars>>

\* binary_as_bytes on what a first call returned
ReformatAgain ==
    /\ bits.at = "done"
    /\ bits' = [at |-> "done2", n |-> bits.n, binary |-> bits.binary,
                result |-> bits.result,
                again |-> binary_as_bytes(bits.result)]
    /\ UNCHANGED <<traceVars, buildVars, locVars, stepVars, textVars,
                 makeVars, procVars, covVars, outVars>>

NextBits == ReadBinary \/ Reformat \/ ReformatAgain

SpecBits == Init /\ [][NextBits]_vars

\* the characters '0' and '1' of a string, in order
BitsOf(s) == SelectSeq(s, LAMBDA c : c \in {"0", "1"})

\* a string of '0', '1' and white space with 8, 16, ... bits
IsWholeBytes(s) ==
    /\ \A k \in 1..Len(s) : s[k] \in {"0", "1", " "}
    /\ Len(BitsOf(s)) > 0
    /\ Len(BitsOf(s)) % 8 = 0

\* the 8-bit groups of the bits of s, in order, with one blank between two
Grouped(s) ==
    LET b == BitsOf(s)
    IN  [k \in 1..(Len(b) + (Len(b) \div 8) - 1) |->
            IF k % 9 = 0 THEN " " ELSE b[k - (k \div 9)]]

\* what the two formulas of C25 share: None and '' are returned unchanged,
\* a string of whole bytes is returned grouped, a second call changes
\* nothing, and the bits are never changed
C25_Common ==
    /\ (bits.at = "done" /\ bits.binary \in {None, <<>>})
          => bits.result = bits.binary
    /\ (bits.at = "done" /\ bits.binary # None /\ IsWholeBytes(bits.binary))
          => bits.result = Grouped(bits.binary)
    /\ bits.at = "done2" => bits.again = bits.result
    /\ (bits.at = "done" /\ bits.binary # None)
          => BitsOf(bits.result) = BitsOf(bits.binary)

\* C25 as stated: binary_as_bytes returns the 8-bit groups of a string of
\* '0' and '1' (white space ignored) with a positive multiple of 8 bits,
\* in order and joined by single blanks; it returns any other string that
\* is not empty verbatim, and None and '' unchanged; it is idempotent and
\* never changes the sequence of bits.
C25_BinaryAsBytes ==
    /\ C25_Common
    /\ (bits.at = "done" /\ bits.binary \notin {None, <<>>}
           /\ ~IsWholeBytes(bits.binary))
          => bits.result = bits.binary

\* C25 amended: the same, except that a string that is not of whole bytes
\* is returned verbatim when it has a character that is not white space,
\* and a string of white space only is returned as ''.
C25_BinaryAsBytesOrBlank ==
    /\ C25_Common
    /\ (bits.at = "done" /\ bits.binary \notin {None, <<>>}
           /\ ~IsWholeBytes(bits.binary))
          => bits.result =
                IF \A k \in 1..Len(bits.binary) : bits.binary[k] = " "
                THEN <<>> ELSE bits.binary

C25_Witness ==
    /\ bits.at = "done2"
    /\ bits.binary = <<"0", "1", "1", "0", "0", "1", "1", "0",
                       "0", "1", "1", "0", "0", "1", "1", "0">>
    /\ bits.result = <<"0", "1", "1", "0", "0", "1", "1", "0", " ",
                       "0", "1", "1", "0", "0", "1", "1", "0">>
    /\ bits.again = bits.result

-----------------------------------------------------------------------------
(* Claims about CBMC result files given to do_make_trace *)

\* C26: do_make_trace returns the empty Trace() only when neither
\* viewer-trace files nor CBMC result files are given; given CBMC result
\* files and no viewer-trace file, it builds the Trace object from those
\* files or raises UserWarning.
C26_ResultsNeverIgnored ==
    make.at = "done" =>
        /\ make.result = EmptyTrace
              => (make.viewer_trace = <<>> /\ make.cbmc_trace = <<>>)
        /\ (make.viewer_trace = <<>> /\ make.cbmc_trace # <<>>)
              => \/ make.result.status = "UserWarning"
                 \/ make.result.fmt \in {"text", "json", "xml"}

-----------------------------------------------------------------------------
(* The output of one CBMC run, as the json and xml parsers find it.  An    *)
(* output file is [has_result, results, goto_trace, prover]: has_result    *)
(* says whether the output has a result block (a json object with the key  *)
(* 'result', xml elements result); a result is [property, status, trace],  *)
(* trace saying whether it has a 'trace' member or a goto_trace child;     *)
(* goto_trace is "none" or what the top-level goto_trace element of a run  *)
(* with --stop-on-fail holds: "failure" for a failure element with         *)
(* children, "childless" for one without; prover is the cProverStatus.     *)

MaxOutputs == 2     \* most output files of one run of make-trace or make-result

\* parse_json_traces on the data of a file: the result block is the first
\* element of the list of the result blocks found
parse_json_traces_data(data) ==
    IF ~data.has_result THEN Raised("IndexError")
    ELSE LET with_trace == {k \in 1..Len(data.results) : data.results[k].trace}
         IN  Value([name \in {data.results[k].property : k \in with_trace} |->
                       Max({k \in with_trace : data.results[k].property = name})])

\* parse_xml_traces on the tree of a file: parse_xml_trace iterates over
\* what find('goto_trace') gives, which is None for a result without trace
parse_xml_traces_tree(xml) ==
    IF xml.has_result /\ Len(xml.results) > 0
    THEN LET failed == {k \in 1..Len(xml.results) :
                           xml.results[k].status # "SUCCESS"}
         IN  IF \E k \in failed : ~xml.results[k].trace
             THEN Raised("TypeError")
             ELSE Value([name \in {xml.results[k].property : k \in failed} |->
                           Max({k \in failed : xml.results[k].property = name})])
    ELSE IF xml.goto_trace # "none"
    THEN Value((IF xml.goto_trace = "failure" THEN "p" ELSE "Unknown property")
               :> 0)
    ELSE Value(EmptyDict)

\* resultt.py.  EMPTY_RESULT and EMPTY_RESULT_RESULTS are module-level
\* dicts; module_ holds, of the first, the value under 'prover' and, of the
\* second, the lists under True and False.  parse_cbmc_json_results binds
\* results to EMPTY_RESULT, assigns to its keys and returns it, and
\* cbmc_json_results binds results to EMPTY_RESULT_RESULTS, appends to its
\* lists and returns it: the operator gives the two objects as they are
\* after the call, which is also what the call returns.
parse_cbmc_json_results(module_, blob) ==
    LET names(success) ==
            SelectSeq([k \in 1..Len(blob.results) |-> blob.results[k]],
                      LAMBDA r : (r.status = "SUCCESS") = success)
        properties(rs) == [k \in 1..Len(rs) |-> rs[k].property]
    IN  [prover |-> IF blob.prover = None THEN None
                    ELSE IF blob.prover = <<"success">> THEN <<"success">>
                    ELSE <<"failure">>,
         true |-> module_.true \o properties(names(TRUE)),
         false |-> module_.false \o properties(names(FALSE))]

\* Result.__init__ on a list of n results that are all the object
\* EMPTY_RESULT: the sets of proved and failed properties and the prover
\* status
Result_init(module_, n) ==
    LET results_list == [i \in 1..n |-> module_]
        success == {results_list[i].true[k] :
                       i \in 1..n, k \in 1..Len(module_.true)}
        failure == {results_list[i].false[k] :
                       i \in 1..n, k \in 1..Len(module_.false)}
        status_ == {results_list[i].prover : i \in 1..n}
    IN  [true |-> success \ failure, false |-> failure,
         prover |-> IF None \in status_ THEN None
                    ELSE IF <<"failure">> \in status_ THEN <<"failure">>
                    ELSE <<"success">>]

\* ResultFromCbmcJson(json_files): the files are parsed in turn, then
\* merged; parsed keeps what each call returned as it was on return
RECURSIVE ResultFromCbmcJson(_, _, _, _)
ResultFromCbmcJson(module_, json_files, i, parsed) ==
    IF i > Len(json_files)
    THEN [module_ |-> module_, parsed |-> parsed,
          result |-> Result_init(module_, IF json_files = <<>> THEN 1
                                          ELSE Len(json_files))]
    ELSE LET results == parse_cbmc_json_results(module_, json_files[i])
         IN  ResultFromCbmcJson(results, json_files, i + 1,
                                Append(parsed, results))

-----------------------------------------------------------------------------
(* The output specification: CBMC is run up to MaxOutputs times, and the   *)
(* traces or the results are parsed from its output files.                 *)

\* one run of CBMC writes its output: no result block, results for the
\* property p or q, or the single trace of a run with --stop-on-fail
WriteOutput ==
    /\ outputs.at = "written"
    /\ Len(outputs.files) < MaxOutputs
    /\ \E has_result \in BOOLEAN, n \in 0..1, property \in {"p", "q"},
          status_ \in {"SUCCESS", "FAILURE"}, trace_ \in BOOLEAN,
          goto_trace \in {"none", "failure", "childless"},
          prover \in {None, <<"success">>, <<"failure">>} :
        /\ ~has_result => n = 0
        /\ n = 0 => (property = "p" /\ status_ = "SUCCESS" /\ ~trace_)
        /\ goto_trace # "none" => ~has_result
        /\ outputs' = [outputs EXCEPT !.files = Append(@,
               [has_result |-> has_result,
                results |-> IF n = 0 THEN <<>>
                            ELSE <<[property |-> property, status |-> status_,
                                    trace |-> trace_]>>,
                goto_trace |-> goto_trace, prover |-> prover])]
    /\ UNCHANGED <<traceVars, buildVars, locVars, stepVars, textVars,
                 makeVars, procVars, bitsVars, covVars>>

\* parse_json_traces on every file
ParseJsonTraces ==
    /\ outputs.at = "written"
    /\ outputs' = [outputs EXCEPT !.at = "json traces",
           !.traces = [i \in 1..Len(outputs.files) |->
                          parse_json_traces_data(outputs.files[i])]]
    /\ UNCHANGED <<traceVars, buildVars, locVars, stepVars, textVars,
                 makeVars, procVars, bitsVars, covVars>>

\* parse_xml_traces on every file
ParseXmlTraces ==
    /\ outputs.at = "written"
    /\ outputs' = [outputs EXCEPT !.at = "xml traces",
           !.traces = [i \in 1..Len(outputs.files) |->
                          parse_xml_traces_tree(outputs.files[i])]]
    /\ UNCHANGED <<traceVars, buildVars, locVars, stepVars, textVars,
                 makeVars, procVars, bitsVars, covVars>>

\* make_result on the json output files
MakeResult ==
    /\ outputs.at = "written"
    /\ LET r == ResultFromCbmcJson(outputs.module_, outputs.files, 1, <<>>)
       IN  outputs' = [outputs EXCEPT !.at = "result",
                                      !.module_ = r.module_,
                                      !.parsed = r.parsed,
                                      !.result = r.result]
    /\ UNCHANGED <<traceVars, buildVars, locVars, stepVars, textVars,
                 makeVars, procVars, bitsVars, covVars>>

NextOut == WriteOutput \/ ParseJsonTraces \/ ParseXmlTraces \/ MakeResult

SpecOut == Init /\ [][NextOut]_vars

\* C27: on json output that has no object with the key 'result',
\* parse_json_traces returns an empty mapping and does not fail, as
\* parse_xml_traces does on xml output with neither result nor goto_trace.
C27_JsonWithoutResult ==
    /\ outputs.at = "json traces" =>
          \A i \in 1..Len(outputs.files) :
              ~outputs.files[i].has_result
                  => outputs.traces[i] = Value(EmptyDict)
    /\ outputs.at = "xml traces" =>
          \A i \in 1..Len(outputs.files) :
              (~outputs.files[i].has_result
                  /\ outputs.files[i].goto_trace = "none")
                  => outputs.traces[i] = Value(EmptyDict)

\* C28: with results in the xml output, parse_xml_traces does not fail; a
\* result that is not SUCCESS and has no goto_trace contributes no entry,
\* and a result that is SUCCESS never does: the mapping has an entry for
\* exactly the properties of the results that are not SUCCESS and have a
\* goto_trace.
C28_XmlResultWithoutTrace ==
    outputs.at = "xml traces" =>
        \A i \in 1..Len(outputs.files) :
            (outputs.files[i].has_result /\ outputs.files[i].results # <<>>)
                => /\ outputs.traces[i].status = "ok"
                   /\ DOMAIN outputs.traces[i].value =
                         {outputs.files[i].results[k].property :
                             k \in {j \in 1..Len(outputs.files[i].results) :
                                 /\ outputs.files[i].results[j].status # "SUCCESS"
                                 /\ outputs.files[i].results[j].trace}}

\* C29: the prover status of the merged Result is 'failure' whenever one of
\* the files reports a failed verification, in whatever order the files
\* are given; and what is parsed from a file is what is parsed from it when
\* it is the only file.
C29_FailureDominates ==
    outputs.at = "result" =>
        /\ (\E i \in 1..Len(outputs.files) :
               outputs.files[i].prover = <<"failure">>)
              => outputs.result.prover = <<"failure">>
        /\ \A i \in 1..Len(outputs.files) :
              outputs.parsed[i] =
                  parse_cbmc_json_results(
                      [prover |-> None, true |-> <<>>, false |-> <<>>],
                      outputs.files[i])

====
